---- MODULE Spec2Model ----
(***************************************************************************)
(* A model of the endpoint monitoring agent: the application usage tracker *)
(* (core/app_tracker.rs), the browser URL monitor (core/browser_monitor.rs)*)
(* the partial-access manager with its enforcement thread                  *)
(* (core/partial_access_manager.rs) and the orchestrating loop             *)
(* (core/monitor.rs).                                                      *)
(*                                                                         *)
(* Conventions.                                                            *)
(*  - A Rust String is a sequence of one-character strings, so that trim,  *)
(*    to_lowercase, starts_with and contains are computed, not assumed.    *)
(*  - Option<T> is a sequence of length at most one: None is << >> and     *)
(*    Some(x) is <<x>>.                                                    *)
(*  - A HashMap is a function whose DOMAIN is the set of its keys.         *)
(*  - Time (SystemTime, Instant, f64 seconds) is an integer number of      *)
(*    milliseconds held in the variable now.                               *)
(*  - Console output (println!) is not modelled.                           *)
(***************************************************************************)
EXTENDS Integers, Sequences, FiniteSets, TLC

VARIABLES
    now,               \* the clock, in milliseconds
    \* ---- BrowserMonitor (core/browser_monitor.rs) ----
    last_url, blocked_count, suspicious_count, url_timers, total_times,
    urls_for_upload, api_blacklist,
    url_data,          \* the last snapshot returned by get_url_data_for_api
    detours,           \* environment: inputs counted against a bound
    arrivals,          \* history: the URLs appended since the last clearing
    \* ---- AppTimeTracker (core/app_tracker.rs) ----
    current_app, app_start_time,
    app_total_time, app_sessions, app_category_time,   \* AppData
    log_file,          \* logs/app_timelog.log, one record per line
    tracked,           \* the value track_app_usage returned last
    probe,             \* environment: what the OS answered in the last tick
    category_order,    \* the iteration order of the APP_CATEGORIES HashMap
    app_data,          \* the last AppUsageData get_app_data_for_api returned
    ticks,             \* environment: tracker ticks so far
    run_first, run_recorded,  \* history: the present run of the current app
    \* ---- PartialAccessManager (core/partial_access_manager.rs) ----
    config, context, dialogs_closed,        \* the three shared values
    lock_config, lock_context, lock_stats,  \* the holder of each Mutex
    \* the enforcement thread and its locals
    epc, current_config, ctx, site, window, dialog_type,
    last_blocked_hwnd, last_blocked_time,
    eiters,            \* environment: iterations of the enforcement loop
    posted,            \* the handles WM_CLOSE was posted to, each with the time
    reports,           \* the access-attempt reports sent to the backend
    \* ---- CybersecurityMonitor::run (core/monitor.rs) ----
    mpc, found_url, new_config_val, blocked_urls, last_sync, last_config_update,
    iters,             \* environment: iterations of the main loop
    replaced,          \* history: the blacklist the last refresh replaced
    prior_config,      \* history: the config the last update_config replaced
    calls              \* history: the backend calls of the present iteration, with results

browserVars == <<last_url, blocked_count, suspicious_count, url_timers,
                 total_times, urls_for_upload, api_blacklist, url_data>>

\* ------------------------------------------------------------------------
\* Option and String helpers
\* ------------------------------------------------------------------------
None == << >>
Some(x) == <<x>>
IsSome(o) == o # << >>
Unwrap(o) == o[1]

EmptyString == << >>

UPPER == <<"A","B","C","D","E","F","G","H","I","J","K","L","M",
           "N","O","P","Q","R","S","T","U","V","W","X","Y","Z">>
LOWER == <<"a","b","c","d","e","f","g","h","i","j","k","l","m",
           "n","o","p","q","r","s","t","u","v","w","x","y","z">>

\* Characters outside ASCII are written by their code point; these two take
\* two bytes each in UTF-8.
N_TILDE == "U+00F1"
N_TILDE_UPPER == "U+00D1"

ToLowerChar(c) ==
    IF \E i \in DOMAIN UPPER : UPPER[i] = c
    THEN LOWER[CHOOSE i \in DOMAIN UPPER : UPPER[i] = c]
    ELSE IF c = N_TILDE_UPPER THEN N_TILDE
    ELSE c

\* str::len(): the length in bytes of the UTF-8 encoding.
RECURSIVE byte_len(_)
byte_len(s) ==
    IF s = << >> THEN 0
    ELSE (IF Head(s) \in {N_TILDE, N_TILDE_UPPER} THEN 2 ELSE 1)
         + byte_len(Tail(s))

to_lowercase(s) == [i \in DOMAIN s |-> ToLowerChar(s[i])]

IsWhitespace(c) == c \in {" ", "\t", "\n", "\r"}

RECURSIVE trim_start(_)
trim_start(s) ==
    IF s # << >> /\ IsWhitespace(Head(s)) THEN trim_start(Tail(s)) ELSE s

RECURSIVE trim_end(_)
trim_end(s) ==
    IF s # << >> /\ IsWhitespace(s[Len(s)])
    THEN trim_end(SubSeq(s, 1, Len(s) - 1))
    ELSE s

trim(s) == trim_end(trim_start(s))

RECURSIVE trim_end_matches(_, _)
trim_end_matches(s, c) ==
    IF s # << >> /\ s[Len(s)] = c
    THEN trim_end_matches(SubSeq(s, 1, Len(s) - 1), c)
    ELSE s

starts_with(s, p) == Len(s) >= Len(p) /\ SubSeq(s, 1, Len(p)) = p

contains(s, sub) ==
    \E i \in 0..(Len(s) - Len(sub)) : SubSeq(s, i + 1, i + Len(sub)) = sub

SkipChars(s, n) == SubSeq(s, n + 1, Len(s))

MapPut(m, k, v) == [x \in DOMAIN m \cup {k} |-> IF x = k THEN v ELSE m[x]]
MapRemove(m, k) == [x \in DOMAIN m \ {k} |-> m[x]]
MapGetOr(m, k, d) == IF k \in DOMAIN m THEN m[k] ELSE d
EmptyMap == << >>

RECURSIVE SumOver(_, _)
SumOver(m, keys) ==
    IF keys = {} THEN 0
    ELSE LET k == CHOOSE x \in keys : TRUE
         IN m[k] + SumOver(m, keys \ {k})

MapSum(m) == SumOver(m, DOMAIN m)

\* ------------------------------------------------------------------------
\* Program constants
\* ------------------------------------------------------------------------
CHECK_INTERVAL == 3          \* seconds
HISTORY_LIMIT == 50          \* urls_for_upload keeps the last 50
MIN_URL_LEN == 4

\* ------------------------------------------------------------------------
\* BrowserMonitor
\* ------------------------------------------------------------------------
HTTP == <<"h","t","t","p",":","/","/">>
HTTPS == <<"h","t","t","p","s",":","/","/">>
WWW == <<"w","w","w",".">>

\* The three prefix strips and the trailing-slash strip of is_blocked,
\* applied in the order of the code, each to the result of the previous one.
normalize(s) ==
    LET a == IF starts_with(s, HTTP) THEN SkipChars(s, 7) ELSE s
        b == IF starts_with(a, HTTPS) THEN SkipChars(a, 8) ELSE a
        c == IF starts_with(b, WWW) THEN SkipChars(b, 4) ELSE b
    IN trim_end_matches(c, "/")

\* regex::Regex::new("(?i)^" + pattern.replace(".", "\\.").replace("*", ".*")
\* + "$"): '.' becomes a literal dot and '*' any sequence, and nothing else
\* is escaped, so the other characters keep their meaning in the regex
\* syntax.  Modelled for patterns of letters, digits, ':', '/', '=', '.',
\* '*' and '?': a '?' makes the item before it optional, and a pattern that
\* begins with '?' does not compile.
regex_compiles(p) == p = << >> \/ Head(p) # "?"

\* re.is_match(url): anchored at both ends, case-insensitive.
RECURSIVE regex_is_match(_, _)
regex_is_match(p, s) ==
    IF p = << >> THEN s = << >>
    ELSE LET optional == Len(p) >= 2 /\ p[2] = "?"
             rest == IF optional THEN SkipChars(p, 2) ELSE Tail(p)
         IN IF Head(p) = "*"
            THEN regex_is_match(rest, s)
                 \/ (s # << >> /\ regex_is_match(p, Tail(s)))
            ELSE \/ (optional /\ regex_is_match(rest, s))
                 \/ /\ s # << >>
                    /\ ToLowerChar(Head(p)) = ToLowerChar(Head(s))
                    /\ regex_is_match(rest, Tail(s))

\* Mutant: a pattern that normalizes to nothing matches no URL.
pattern_matches_NeedsText(pattern, url, normalized_url) ==
    IF contains(pattern, <<"*">>)
    THEN regex_compiles(pattern) /\ regex_is_match(pattern, url)
    ELSE /\ normalize(pattern) # << >>
         /\ contains(normalized_url, normalize(pattern))

pattern_matches(pattern, url, normalized_url) ==
    IF contains(pattern, <<"*">>)
    THEN regex_compiles(pattern) /\ regex_is_match(pattern, url)
    ELSE contains(normalized_url, normalize(pattern))

is_blocked(url) ==
    LET url_lower == to_lowercase(url)
    IN IF byte_len(url_lower) < MIN_URL_LEN THEN FALSE
       ELSE \E i \in DOMAIN api_blacklist :
                pattern_matches(api_blacklist[i], url, normalize(url_lower))

\* Mutant: the dwell replaces the cumulative time instead of adding to it.
CloseOutTotals_Overwrites(t) ==
    LET start_time == MapGetOr(url_timers, last_url, t)
        duration == t - start_time
    IN MapPut(total_times, last_url, duration)

\* Close out the timer of last_url at time t: the dwell (t - start, with t as
\* the start when no timer is open) is added to its cumulative time.
CloseOutTotals(t) ==
    LET start_time == MapGetOr(url_timers, last_url, t)
        duration == t - start_time
    IN MapPut(total_times, last_url, MapGetOr(total_times, last_url, 0) + duration)

\* Mutant: the pop is taken one entry early (>= instead of >).
PushBounded_PopsEarly(q, x) ==
    LET pushed == Append(q, x)
    IN IF Len(pushed) >= HISTORY_LIMIT THEN Tail(pushed) ELSE pushed

PushBounded(q, x) ==
    LET pushed == Append(q, x)
    IN IF Len(pushed) > HISTORY_LIMIT THEN Tail(pushed) ELSE pushed

\* Mutant: every tick with a URL is taken for a change of URL.
url_changed_Always(url) == TRUE

\* if url != self.last_url
url_changed(url) == url # last_url

\* Mutant: losing the URL also drops the pending history.
update_timing_DropsHistory(current_url, t) ==
    IF IsSome(current_url)
    THEN LET url == Unwrap(current_url)
         IN /\ blocked_count' = IF is_blocked(url) THEN blocked_count + 1
                                ELSE blocked_count
            /\ IF url_changed(url)
               THEN /\ total_times' = IF last_url # EmptyString
                                      THEN CloseOutTotals(t) ELSE total_times
                    /\ url_timers' =
                          MapPut(IF last_url # EmptyString
                                 THEN MapRemove(url_timers, last_url)
                                 ELSE url_timers, url, t)
                    /\ last_url' = url
                    /\ urls_for_upload' = PushBounded(urls_for_upload, url)
               ELSE UNCHANGED <<total_times, url_timers, last_url, urls_for_upload>>
            /\ UNCHANGED <<suspicious_count, api_blacklist, url_data>>
    ELSE IF last_url # EmptyString
         THEN /\ total_times' = CloseOutTotals(t)
              /\ url_timers' = MapRemove(url_timers, last_url)
              /\ last_url' = EmptyString
              /\ urls_for_upload' = << >>
              /\ UNCHANGED <<blocked_count, suspicious_count,
                             api_blacklist, url_data>>
         ELSE UNCHANGED browserVars

\* Mutant: the timer of the URL that is left stays in the map.
update_timing_LeavesTimer(current_url, t) ==
    IF IsSome(current_url)
    THEN LET url == Unwrap(current_url)
         IN /\ blocked_count' = IF is_blocked(url) THEN blocked_count + 1
                                ELSE blocked_count
            /\ IF url_changed(url)
               THEN /\ total_times' = IF last_url # EmptyString
                                      THEN CloseOutTotals(t) ELSE total_times
                    /\ url_timers' =
                          MapPut(url_timers, url, t)
                    /\ last_url' = url
                    /\ urls_for_upload' = PushBounded(urls_for_upload, url)
               ELSE UNCHANGED <<total_times, url_timers, last_url, urls_for_upload>>
            /\ UNCHANGED <<suspicious_count, api_blacklist, url_data>>
    ELSE IF last_url # EmptyString
         THEN /\ total_times' = CloseOutTotals(t)
              /\ url_timers' = MapRemove(url_timers, last_url)
              /\ last_url' = EmptyString
              /\ UNCHANGED <<blocked_count, suspicious_count, urls_for_upload,
                             api_blacklist, url_data>>
         ELSE UNCHANGED browserVars

\* update_timing(current_url) called at time t.
update_timing(current_url, t) ==
    IF IsSome(current_url)
    THEN LET url == Unwrap(current_url)
         IN /\ blocked_count' = IF is_blocked(url) THEN blocked_count + 1
                                ELSE blocked_count
            /\ IF url_changed(url)
               THEN /\ total_times' = IF last_url # EmptyString
                                      THEN CloseOutTotals(t) ELSE total_times
                    /\ url_timers' =
                          MapPut(IF last_url # EmptyString
                                 THEN MapRemove(url_timers, last_url)
                                 ELSE url_timers, url, t)
                    /\ last_url' = url
                    /\ urls_for_upload' = PushBounded(urls_for_upload, url)
               ELSE UNCHANGED <<total_times, url_timers, last_url, urls_for_upload>>
            /\ UNCHANGED <<suspicious_count, api_blacklist, url_data>>
    ELSE IF last_url # EmptyString
         THEN /\ total_times' = CloseOutTotals(t)
              /\ url_timers' = MapRemove(url_timers, last_url)
              /\ last_url' = EmptyString
              /\ UNCHANGED <<blocked_count, suspicious_count, urls_for_upload,
                             api_blacklist, url_data>>
         ELSE UNCHANGED browserVars

RECURSIVE FilterNonEmpty(_)
FilterNonEmpty(list) ==
    IF list = << >> THEN << >>
    ELSE IF Head(list) # EmptyString
         THEN <<Head(list)>> \o FilterNonEmpty(Tail(list))
         ELSE FilterNonEmpty(Tail(list))

clean_blacklist(new_blacklist) ==
    FilterNonEmpty([i \in DOMAIN new_blacklist |->
                        to_lowercase(trim(new_blacklist[i]))])

\* Mutant: the fetched entries are added to the blacklist already held.
update_blacklist_Merges(new_blacklist) ==
    /\ api_blacklist' = api_blacklist \o clean_blacklist(new_blacklist)
    /\ UNCHANGED <<last_url, blocked_count, suspicious_count, url_timers,
                   total_times, urls_for_upload, url_data>>

update_blacklist(new_blacklist) ==
    /\ api_blacklist' = clean_blacklist(new_blacklist)
    /\ UNCHANGED <<last_url, blocked_count, suspicious_count, url_timers,
                   total_times, urls_for_upload, url_data>>

\* total_visits: each cumulative dwell truncated to whole seconds, summed.
TruncatedSeconds(m) == [k \in DOMAIN m |-> m[k] \div 1000]

\* Mutant: the history is cleared whether or not clearing was requested.
get_url_data_for_api_AlwaysClears(clear_after) ==
    /\ url_data' = Some([blocked_count |-> blocked_count,
                         suspicious_count |-> suspicious_count,
                         urls |-> urls_for_upload,
                         total_visits |-> MapSum(TruncatedSeconds(total_times))])
    /\ urls_for_upload' = << >>
    /\ UNCHANGED <<last_url, blocked_count, suspicious_count, url_timers,
                   total_times, api_blacklist>>

get_url_data_for_api(clear_after) ==
    /\ url_data' = Some([blocked_count |-> blocked_count,
                         suspicious_count |-> suspicious_count,
                         urls |-> urls_for_upload,
                         total_visits |-> MapSum(TruncatedSeconds(total_times))])
    /\ urls_for_upload' = IF clear_after THEN << >> ELSE urls_for_upload
    /\ UNCHANGED <<last_url, blocked_count, suspicious_count, url_timers,
                   total_times, api_blacklist>>

BrowserInit ==
    /\ last_url = EmptyString
    /\ blocked_count = 0
    /\ suspicious_count = 0
    /\ url_timers = EmptyMap
    /\ total_times = EmptyMap
    /\ urls_for_upload = << >>
    /\ api_blacklist = << >>
    /\ url_data = None

\* ------------------------------------------------------------------------
\* Unsigned 32-bit values (GetTickCount, LASTINPUTINFO.dwTime) as two 16-bit
\* limbs, so that the arithmetic keeps its width.
\* ------------------------------------------------------------------------
LIMB == 65536

U32(h, l) == [hi |-> h, lo |-> l]
U32Of(n) == U32(n \div LIMB, n % LIMB)
U32_MAX == U32(LIMB - 1, LIMB - 1)
U32Ge(a, b) == a.hi > b.hi \/ (a.hi = b.hi /\ a.lo >= b.lo)
U32Lt(a, b) == ~U32Ge(a, b)

\* a - b and a + b modulo 2^32
U32Sub(a, b) ==
    LET borrow == IF a.lo < b.lo THEN 1 ELSE 0
    IN U32((a.hi - b.hi - borrow) % LIMB, (a.lo - b.lo) % LIMB)
U32Add(a, b) ==
    LET carry == (a.lo + b.lo) \div LIMB
    IN U32((a.hi + b.hi + carry) % LIMB, (a.lo + b.lo) % LIMB)

\* ------------------------------------------------------------------------
\* AppTimeTracker
\* ------------------------------------------------------------------------
TRACK_APP_USAGE == TRUE
MINIMUM_APP_TIME == 5        \* seconds
SESSION_FLUSH_SECS == 300    \* a continuous session is flushed at 300 s
IDLE_THRESHOLD_SECS == 120   \* idle for 2 minutes: the device is inactive

\* get_ignore_apps(): the process names never tracked.
IGNORE_APPS == <<
    <<"e","x","p","l","o","r","e","r">>,
    <<"s","v","c","h","o","s","t">>,
    <<"S","y","s","t","e","m">>,
    <<"I","d","l","e">>,
    <<"R","e","g","i","s","t","r","y">>,
    <<"s","m","s","s">>,
    <<"c","s","r","s","s">>,
    <<"w","i","n","i","n","i","t">>,
    <<"w","i","n","l","o","g","o","n">>,
    <<"s","e","r","v","i","c","e","s">>,
    <<"l","s","a","s","s">>,
    <<"t","a","s","k","h","o","s","t">>,
    <<"d","w","m">>,
    <<"c","o","n","h","o","s","t">>,
    <<"c","m","d">>,
    <<"p","o","w","e","r","s","h","e","l","l">>,
    <<"p","w","s","h">>,
    <<"p","y","t","h","o","n">>,
    <<"p","y","t","h","o","n","w">>,
    <<"j","a","v","a","w">>,
    <<"j","a","v","a">>,
    <<"W","m","i","P","r","v","S","E">>,
    <<"s","i","h","o","s","t">>,
    <<"c","t","f","m","o","n">>,
    <<"R","u","n","t","i","m","e","B","r","o","k","e","r">>,
    <<"S","e","a","r","c","h","U","I">>,
    <<"S","t","a","r","t","M","e","n","u","E","x","p","e","r","i","e","n","c","e","H","o","s","t">>,
    <<"W","i","d","g","e","t","s">>,
    <<"C","a","l","c","u","l","a","t","o","r">>,
    <<"n","o","t","e","p","a","d">>,
    <<"w","o","r","d","p","a","d">>,
    <<"m","s","p","a","i","n","t">>,
    <<"S","y","s","t","e","m","S","e","t","t","i","n","g","s">>,
    <<"T","a","s","k","m","g","r">>,
    <<"S","e","c","u","r","i","t","y","H","e","a","l","t","h","S","y","s","t","r","a","y">>,
    <<"S","e","c","u","r","i","t","y","H","e","a","l","t","h","S","e","r","v","i","c","e">>,
    <<"C","y","b","e","r","s","e","c","u","r","i","t","y","M","o","n","i","t","o","r">>
>>

\* get_app_categories(): category -> the substrings that select it.
APP_CATEGORIES ==
    ("Browsers" :> <<
        <<"c","h","r","o","m","e">>,
        <<"f","i","r","e","f","o","x">>,
        <<"m","s","e","d","g","e">>,
        <<"o","p","e","r","a">>,
        <<"b","r","a","v","e">>,
        <<"v","i","v","a","l","d","i">>,
        <<"s","a","f","a","r","i">>,
        <<"t","o","r">>>>)
    @@ ("Communication" :> <<
        <<"t","e","a","m","s">>,
        <<"z","o","o","m">>,
        <<"d","i","s","c","o","r","d">>,
        <<"s","l","a","c","k">>,
        <<"w","h","a","t","s","a","p","p">>,
        <<"s","i","g","n","a","l">>,
        <<"t","e","l","e","g","r","a","m">>,
        <<"s","k","y","p","e">>>>)
    @@ ("Social Media" :> <<
        <<"f","a","c","e","b","o","o","k">>,
        <<"i","n","s","t","a","g","r","a","m">>,
        <<"t","w","i","t","t","e","r">>,
        <<"t","i","k","t","o","k">>,
        <<"r","e","d","d","i","t">>,
        <<"l","i","n","k","e","d","i","n">>,
        <<"p","i","n","t","e","r","e","s","t">>>>)
    @@ ("Productivity" :> <<
        <<"w","i","n","w","o","r","d">>,
        <<"e","x","c","e","l">>,
        <<"p","o","w","e","r","p","n","t">>,
        <<"o","u","t","l","o","o","k">>,
        <<"o","n","e","n","o","t","e">>,
        <<"n","o","t","e","p","a","d","+","+">>,
        <<"v","s","c","o","d","e">>,
        <<"c","o","d","e">>>>)
    @@ ("Entertainment" :> <<
        <<"s","p","o","t","i","f","y">>,
        <<"v","l","c">>,
        <<"n","e","t","f","l","i","x">>,
        <<"d","i","s","n","e","y","+">>,
        <<"p","r","i","m","e","v","i","d","e","o">>,
        <<"s","t","e","a","m">>,
        <<"e","p","i","c","g","a","m","e","s","l","a","u","n","c","h","e","r">>>>)
    @@ ("Development" :> <<
        <<"v","s","c","o","d","e">>,
        <<"c","o","d","e">>,
        <<"p","y","c","h","a","r","m">>,
        <<"i","n","t","e","l","l","i","j">>,
        <<"a","n","d","r","o","i","d","s","t","u","d","i","o">>,
        <<"v","i","s","u","a","l","s","t","u","d","i","o">>,
        <<"g","i","t">>,
        <<"d","o","c","k","e","r">>>>)
    @@ ("Creative" :> <<
        <<"p","h","o","t","o","s","h","o","p">>,
        <<"i","l","l","u","s","t","r","a","t","o","r">>,
        <<"p","r","e","m","i","e","r","e">>,
        <<"a","f","t","e","r","e","f","f","e","c","t","s">>,
        <<"b","l","e","n","d","e","r">>,
        <<"a","u","d","a","c","i","t","y">>,
        <<"o","b","s">>>>)
    @@ ("Utilities" :> <<
        <<"e","x","p","l","o","r","e","r">>,
        <<"t","a","s","k","m","g","r">>,
        <<"c","o","n","t","r","o","l">>,
        <<"s","e","t","t","i","n","g","s">>,
        <<"c","a","l","c","u","l","a","t","o","r">>,
        <<"m","s","p","a","i","n","t">>,
        <<"c","m","d">>,
        <<"p","o","w","e","r","s","h","e","l","l">>>>)

EXE == <<".","e","x","e">>

dataVars == <<app_total_time, app_sessions, app_category_time, log_file>>
trackerVars == <<current_app, app_start_time, dataVars, tracked, probe>>

\* str::replace(pat, ""): every non-overlapping occurrence, left to right.
RECURSIVE remove_all(_, _)
remove_all(s, pat) ==
    IF Len(s) < Len(pat) THEN s
    ELSE IF starts_with(s, pat) THEN remove_all(SkipChars(s, Len(pat)), pat)
         ELSE <<Head(s)>> \o remove_all(Tail(s), pat)

\* The idle time the code computes from the two tick counts.
idle_ticks(current_tick_32, dwTime) ==
    IF U32Ge(current_tick_32, dwTime)
    THEN U32Sub(current_tick_32, dwTime)
    ELSE U32Add(U32Sub(U32_MAX, dwTime), current_tick_32)

check_device_active(lii_ok, current_tick_32, dwTime) ==
    IF lii_ok
    THEN U32Lt(idle_ticks(current_tick_32, dwTime),
               U32Of(IDLE_THRESHOLD_SECS * 1000))
    ELSE TRUE

should_ignore_app(app_name) ==
    \E i \in DOMAIN IGNORE_APPS : contains(app_name, to_lowercase(IGNORE_APPS[i]))

\* fg is the name of the process owning the foreground window, None when
\* there is no foreground window or its process is not found.
get_active_app(fg) ==
    IF IsSome(fg)
    THEN LET name == remove_all(to_lowercase(Unwrap(fg)), EXE)
         IN IF should_ignore_app(name) THEN None ELSE Some(name)
    ELSE None

CategoryMatches(cat, app_name) ==
    \E i \in DOMAIN APP_CATEGORIES[cat] :
        contains(app_name, to_lowercase(APP_CATEGORIES[cat][i]))

\* The processes the environment of this model puts in the foreground, and,
\* computed once for each of them, the name get_active_app gives it and the
\* categories whose substrings occur in that name.
CHROME_EXE == <<"C","h","r","o","m","e",".","e","x","e">>
CODE_EXE == <<"C","o","d","e",".","e","x","e">>
EXPLORER_EXE == <<"e","x","p","l","o","r","e","r",".","e","x","e">>

SLACK_EXE == <<"s","l","a","c","k",".","e","x","e">>
SPOTIFY_EXE == <<"S","p","o","t","i","f","y",".","e","x","e">>
BLENDER_EXE == <<"b","l","e","n","d","e","r",".","e","x","e">>
ZOOM_EXE == <<"Z","o","o","m",".","e","x","e">>
UNKNOWN_EXE == <<"u","n","k","n","o","w","n","a","p","p","1","2","3",".","e","x","e">>

Foregrounds ==
    {None, Some(CHROME_EXE), Some(CODE_EXE), Some(EXPLORER_EXE), Some(SLACK_EXE),
     Some(SPOTIFY_EXE), Some(BLENDER_EXE), Some(ZOOM_EXE), Some(UNKNOWN_EXE)}

ACTIVE_APP == [fg \in Foregrounds |-> get_active_app(fg)]

CATEGORY_HITS ==
    [name \in {ACTIVE_APP[fg][1] : fg \in {f \in Foregrounds : IsSome(ACTIVE_APP[f])}}
        |-> {cat \in DOMAIN APP_CATEGORIES : CategoryMatches(cat, name)}]

\* The first category, in the iteration order of the map, with a substring
\* of the name; "Other" when there is none.
get_app_category(app_name) ==
    LET hits == {i \in DOMAIN category_order :
                    category_order[i] \in CATEGORY_HITS[app_name]}
    IN IF hits = {} THEN "Other"
       ELSE category_order[CHOOSE i \in hits : \A j \in hits : i <= j]

\* Mutant: the category's time is replaced by the session's duration.
record_app_session_CategoryOverwrites(app_name, start_time, duration) ==
    /\ \E open_ok \in BOOLEAN :
          log_file' = IF open_ok
                      THEN Append(log_file, [duration |-> duration,
                                             start |-> start_time,
                                             app |-> app_name])
                      ELSE log_file
    /\ app_total_time' =
          MapPut(app_total_time, app_name,
                 MapGetOr(app_total_time, app_name, 0) + duration)
    /\ app_sessions' =
          MapPut(app_sessions, app_name, MapGetOr(app_sessions, app_name, 0) + 1)
    /\ app_category_time' =
          LET category == get_app_category(app_name)
          IN MapPut(app_category_time, category, duration)

\* record_app_session: the log line is written when the file can be opened
\* for append (a failure is dropped silently); the aggregates always are.
record_app_session(app_name, start_time, duration) ==
    /\ \E open_ok \in BOOLEAN :
          log_file' = IF open_ok
                      THEN Append(log_file, [duration |-> duration,
                                             start |-> start_time,
                                             app |-> app_name])
                      ELSE log_file
    /\ app_total_time' =
          MapPut(app_total_time, app_name,
                 MapGetOr(app_total_time, app_name, 0) + duration)
    /\ app_sessions' =
          MapPut(app_sessions, app_name, MapGetOr(app_sessions, app_name, 0) + 1)
    /\ app_category_time' =
          LET category == get_app_category(app_name)
          IN MapPut(app_category_time, category,
                    MapGetOr(app_category_time, category, 0) + duration)

\* if let (Some(app), Some(start)) = (current_app.take(), app_start_time.take())
\* { if now - start >= MINIMUM_APP_TIME { record_app_session(..) } }
\* The two take() leave both fields None; that is done by the caller below.
\* Mutant: a session of exactly MINIMUM_APP_TIME is discarded (> for >=).
close_session_Strict(t) ==
    IF IsSome(current_app) /\ IsSome(app_start_time)
       /\ t - Unwrap(app_start_time) > MINIMUM_APP_TIME * 1000
    THEN record_app_session(Unwrap(current_app), Unwrap(app_start_time),
                            t - Unwrap(app_start_time))
    ELSE UNCHANGED dataVars

close_session(t) ==
    IF IsSome(current_app) /\ IsSome(app_start_time)
       /\ t - Unwrap(app_start_time) >= MINIMUM_APP_TIME * 1000
    THEN record_app_session(Unwrap(current_app), Unwrap(app_start_time),
                            t - Unwrap(app_start_time))
    ELSE UNCHANGED dataVars

\* The 300 s flush of a continuing session: it is recorded whatever its
\* length (>= 300 s) and a new session of the same app starts at t.
\* Mutant: the flush forgets to restart the session.
flush_session_KeepsStart(t) ==
    /\ record_app_session(Unwrap(current_app), Unwrap(app_start_time),
                          t - Unwrap(app_start_time))
    /\ UNCHANGED <<current_app, app_start_time>>

flush_session(t) ==
    /\ record_app_session(Unwrap(current_app), Unwrap(app_start_time),
                          t - Unwrap(app_start_time))
    /\ app_start_time' = Some(t)
    /\ UNCHANGED current_app

\* Mutant: a tick that finds the same app restarts the session's clock.
track_app_usage_RestartsSession(t, p) ==
    /\ probe' = p
    /\ IF ~TRACK_APP_USAGE
       THEN /\ tracked' = None
            /\ UNCHANGED <<current_app, app_start_time, dataVars>>
       ELSE IF ~check_device_active(p.lii_ok, p.tick, p.dwTime)
       THEN /\ close_session(t)
            /\ current_app' = None
            /\ app_start_time' = None
            /\ tracked' = None
       ELSE LET active_app == ACTIVE_APP[p.fg]
            IN /\ IF IsSome(active_app)
                  THEN IF active_app # current_app
                       THEN /\ close_session(t)
                            /\ current_app' = active_app
                            /\ app_start_time' = Some(t)
                       ELSE IF IsSome(app_start_time)
                               /\ t - Unwrap(app_start_time)
                                    >= SESSION_FLUSH_SECS * 1000
                            THEN flush_session(t)
                            ELSE /\ app_start_time' = Some(t)
                                 /\ UNCHANGED <<current_app, dataVars>>
                  ELSE /\ close_session(t)
                       /\ current_app' = None
                       /\ app_start_time' = None
               /\ tracked' = current_app'

\* Mutant: a tick without an active app leaves the session start in place.
track_app_usage_KeepsStart(t, p) ==
    /\ probe' = p
    /\ IF ~TRACK_APP_USAGE
       THEN /\ tracked' = None
            /\ UNCHANGED <<current_app, app_start_time, dataVars>>
       ELSE IF ~check_device_active(p.lii_ok, p.tick, p.dwTime)
       THEN /\ close_session(t)
            /\ current_app' = None
            /\ app_start_time' = None
            /\ tracked' = None
       ELSE LET active_app == ACTIVE_APP[p.fg]
            IN /\ IF IsSome(active_app)
                  THEN IF active_app # current_app
                       THEN /\ close_session(t)
                            /\ current_app' = active_app
                            /\ app_start_time' = Some(t)
                       ELSE IF IsSome(app_start_time)
                               /\ t - Unwrap(app_start_time)
                                    >= SESSION_FLUSH_SECS * 1000
                            THEN flush_session(t)
                            ELSE UNCHANGED <<current_app, app_start_time, dataVars>>
                  ELSE /\ close_session(t)
                       /\ current_app' = None
                       /\ app_start_time' = app_start_time
               /\ tracked' = current_app'

\* track_app_usage() called at time t, the OS answering p.
track_app_usage(t, p) ==
    /\ probe' = p
    /\ IF ~TRACK_APP_USAGE
       THEN /\ tracked' = None
            /\ UNCHANGED <<current_app, app_start_time, dataVars>>
       ELSE IF ~check_device_active(p.lii_ok, p.tick, p.dwTime)
       THEN /\ close_session(t)
            /\ current_app' = None
            /\ app_start_time' = None
            /\ tracked' = None
       ELSE LET active_app == ACTIVE_APP[p.fg]
            IN /\ IF IsSome(active_app)
                  THEN IF active_app # current_app
                       THEN /\ close_session(t)
                            /\ current_app' = active_app
                            /\ app_start_time' = Some(t)
                       ELSE IF IsSome(app_start_time)
                               /\ t - Unwrap(app_start_time)
                                    >= SESSION_FLUSH_SECS * 1000
                            THEN flush_session(t)
                            ELSE UNCHANGED <<current_app, app_start_time, dataVars>>
                  ELSE /\ close_session(t)
                       /\ current_app' = None
                       /\ app_start_time' = None
               /\ tracked' = current_app'

NoProbe == [dwTime |-> U32(0, 0), lii_ok |-> FALSE, fg |-> None, tick |-> U32(0, 0)]

\* The order in which a HashMap with the keys S is iterated: unspecified, so
\* one order of the keys and its reverse stand for the orders a run may have.
RECURSIVE KeysInOrder(_)
KeysInOrder(S) ==
    IF S = {} THEN << >>
    ELSE LET k == CHOOSE x \in S : TRUE
         IN <<k>> \o KeysInOrder(S \ {k})

IterationOrders(S) ==
    LET q == KeysInOrder(S)
    IN {q, [i \in DOMAIN q |-> q[Len(q) + 1 - i]]}

TOP_APPS_LIMIT == 5

\* Mutant: the comparison of line 191 the other way round (ascending).
RECURSIVE sorted_apps_Ascending(_, _)
sorted_apps_Ascending(it, m) ==
    IF it = << >> THEN << >>
    ELSE LET acc == sorted_apps_Ascending(SubSeq(it, 1, Len(it) - 1), m)
             x == it[Len(it)]
             k == Cardinality({i \in DOMAIN acc : m[acc[i]] <= m[x]})
         IN SubSeq(acc, 1, k) \o <<x>> \o SubSeq(acc, k + 1, Len(acc))

\* Lines 190-191: the entries of app_total_time, collected in the map's
\* iteration order it, under the stable sort_by with b.1.partial_cmp(a.1):
\* each entry goes behind the entries whose time is not smaller.
RECURSIVE sorted_apps(_, _)
sorted_apps(it, m) ==
    IF it = << >> THEN << >>
    ELSE LET acc == sorted_apps(SubSeq(it, 1, Len(it) - 1), m)
             x == it[Len(it)]
             k == Cardinality({i \in DOMAIN acc : m[acc[i]] >= m[x]})
         IN SubSeq(acc, 1, k) \o <<x>> \o SubSeq(acc, k + 1, Len(acc))

\* get_app_data_for_api (lines 176-217) at time t; times are milliseconds.
get_app_data_for_api(t) ==
    \E it \in IterationOrders(DOMAIN app_total_time) :
        LET sorted == sorted_apps(it, app_total_time)
            taken == SubSeq(sorted, 1,
                            IF Len(sorted) < TOP_APPS_LIMIT THEN Len(sorted)
                            ELSE TOP_APPS_LIMIT)
        IN app_data' =
             Some([current_app |-> IF IsSome(current_app) THEN Unwrap(current_app)
                                   ELSE <<"I","d","l","e">>,
                   current_session_duration |->
                       IF IsSome(app_start_time) THEN t - Unwrap(app_start_time)
                       ELSE 0,
                   total_apps_tracked |-> Cardinality(DOMAIN app_total_time),
                   active_usage_time |-> MapSum(app_total_time),
                   top_apps |->
                       [i \in DOMAIN taken |->
                           [app |-> taken[i],
                            category |-> get_app_category(taken[i]),
                            active_time |-> app_total_time[taken[i]],
                            sessions |-> MapGetOr(app_sessions, taken[i], 0)]],
                   category_breakdown |-> app_category_time])

TrackerInit ==
    /\ app_data = None
    /\ current_app = None
    /\ app_start_time = None
    /\ app_total_time = EmptyMap
    /\ app_sessions = EmptyMap
    /\ app_category_time = EmptyMap
    /\ log_file = << >>
    /\ tracked = None
    /\ probe = NoProbe

\* ------------------------------------------------------------------------
\* PartialAccessManager: shared values, update_config, get_dialog_type
\* ------------------------------------------------------------------------
FREE == "free"
MAIN == "main"
ENFORCER == "enforcer"

sharedVars == <<config, context, dialogs_closed>>
lockVars == <<lock_config, lock_context, lock_stats>>
enforcerVars == <<epc, current_config, ctx, site, window, dialog_type,
                  last_blocked_hwnd, last_blocked_time, eiters, posted, reports>>
mainVars == <<mpc, found_url, new_config_val, blocked_urls, last_sync,
              last_config_update, iters, replaced,
              prior_config, calls>>
threadVars == <<sharedVars, lockVars, enforcerVars, mainVars>>
historyVars == <<detours, arrivals, category_order, app_data, ticks, run_first, run_recorded>>

\* The locks a thread holds.
HeldBy(thread) ==
    {l \in {"config", "context", "stats"} :
        (l = "config" /\ lock_config = thread)
        \/ (l = "context" /\ lock_context = thread)
        \/ (l = "stats" /\ lock_stats = thread)}

BLOCK == <<"b","l","o","c","k">>

\* JSON values of a fetched payload, as far as update_config and the
\* deserialisation of a site tell them apart: a boolean, a string, an array,
\* an object, anything else.
JBool(b) == [v |-> b, t |-> "bool"]
JString(str) == [v |-> str, t |-> "string"]
JArray(a) == [v |-> a, t |-> "array"]
JObject(o) == [v |-> o, t |-> "object"]
JOther == [t |-> "other"]

\* The JSON object of a site, and one that lacks fields of it.
JSite(r) == JObject([urlPattern |-> JString(r.url_pattern),
                     allowUpload |-> JBool(r.allow_upload),
                     allowDownload |-> JBool(r.allow_download),
                     monitorMode |-> JString(r.monitor_mode),
                     active |-> JBool(r.active)])
JMalformed == JObject([urlPattern |-> JString(<<"x">>), active |-> JBool(TRUE)])

\* payload.get(key).and_then(|v| v.as_bool())
as_bool(payload, key) ==
    IF key \in DOMAIN payload /\ payload[key].t = "bool"
    THEN Some(payload[key].v) ELSE None

\* payload.get(key).and_then(|v| v.as_array())
as_array(payload, key) ==
    IF key \in DOMAIN payload /\ payload[key].t = "array"
    THEN Some(payload[key].v) ELSE None

\* serde_json::from_value::<PartialAccessSite>(s).ok(), lines 31-42: an
\* object with the five renamed fields, each of its type; other fields of
\* the object are ignored.
from_value(j) ==
    IF /\ j.t = "object"
       /\ {"urlPattern", "allowUpload", "allowDownload", "monitorMode", "active"}
             \subseteq DOMAIN j.v
       /\ j.v["urlPattern"].t = "string"
       /\ j.v["allowUpload"].t = "bool"
       /\ j.v["allowDownload"].t = "bool"
       /\ j.v["monitorMode"].t = "string"
       /\ j.v["active"].t = "bool"
    THEN Some([url_pattern |-> j.v["urlPattern"].v,
               allow_upload |-> j.v["allowUpload"].v,
               allow_download |-> j.v["allowDownload"].v,
               monitor_mode |-> j.v["monitorMode"].v,
               active |-> j.v["active"].v])
    ELSE None

\* Mutant: one record that does not parse rejects the whole list.
parse_sites_AllOrNothing(arr) ==
    IF \A i \in DOMAIN arr : IsSome(from_value(arr[i]))
    THEN [i \in DOMAIN arr |-> Unwrap(from_value(arr[i]))]
    ELSE << >>

\* sites_array.iter().filter_map(|s| serde_json::from_value(s).ok()).collect()
RECURSIVE parse_sites(_)
parse_sites(arr) ==
    IF arr = << >> THEN << >>
    ELSE from_value(Head(arr)) \o parse_sites(Tail(arr))

\* Mutant: only the primary keys are read.
apply_config_PrimaryOnly(old, payload) ==
    LET enabled == as_bool(payload, "enabled")
        sites == as_array(payload, "partialAccessSites")
    IN [enabled |-> IF IsSome(enabled) THEN Unwrap(enabled) ELSE old.enabled,
        sites |-> IF IsSome(sites) THEN parse_sites(Unwrap(sites)) ELSE old.sites]

\* Mutant: the fetched sites are added to the list instead of replacing it.
apply_config_AddsSites(old, payload) ==
    LET enabled == IF IsSome(as_bool(payload, "enabled"))
                   THEN as_bool(payload, "enabled")
                   ELSE as_bool(payload, "active")
        sites == IF IsSome(as_array(payload, "partialAccessSites"))
                 THEN as_array(payload, "partialAccessSites")
                 ELSE as_array(payload, "sites")
    IN [enabled |-> IF IsSome(enabled) THEN Unwrap(enabled) ELSE old.enabled,
        sites |-> IF IsSome(sites) THEN old.sites \o parse_sites(Unwrap(sites))
                  ELSE old.sites]

\* The config update_config leaves for a fetched payload (lines 170-192).
apply_config(old, payload) ==
    LET enabled == IF IsSome(as_bool(payload, "enabled"))
                   THEN as_bool(payload, "enabled")
                   ELSE as_bool(payload, "active")
        sites == IF IsSome(as_array(payload, "partialAccessSites"))
                 THEN as_array(payload, "partialAccessSites")
                 ELSE as_array(payload, "sites")
    IN [enabled |-> IF IsSome(enabled) THEN Unwrap(enabled) ELSE old.enabled,
        sites |-> IF IsSome(sites) THEN parse_sites(Unwrap(sites)) ELSE old.sites]

DIALOG_CLASSES == <<
    <<"#","3","2","7","7","0">>,
    <<"F","i","l","e","C","h","o","o","s","e","r","D","i","a","l","o","g","C","l","a","s","s">>,
    <<"N","a","t","i","v","e","H","W","N","D","H","o","s","t">> >>
UPLOAD_KEYWORDS == <<
    <<"o","p","e","n">>,
    <<"u","p","l","o","a","d">>,
    <<"s","e","l","e","c","t"," ","f","i","l","e">>,
    <<"c","h","o","o","s","e"," ","f","i","l","e">> >>
DOWNLOAD_KEYWORDS == <<
    <<"s","a","v","e">>,
    <<"d","o","w","n","l","o","a","d">> >>

AnyContained(s, list) == \E i \in DOMAIN list : contains(s, list[i])

\* Mutant: the download test comes before the upload test.
get_dialog_type_DownloadFirst(class_name, title, st) ==
    LET title_lower == to_lowercase(title)
    IN IF ~AnyContained(class_name, DIALOG_CLASSES) THEN "None"
       ELSE IF ~st.allow_download /\ st.monitor_mode = BLOCK
               /\ AnyContained(title_lower, DOWNLOAD_KEYWORDS) THEN "Download"
       ELSE IF ~st.allow_upload /\ st.monitor_mode = BLOCK
               /\ AnyContained(title_lower, UPLOAD_KEYWORDS) THEN "Upload"
       ELSE "None"

\* Mutant: the monitor mode of the site is not looked at.
get_dialog_type_IgnoresMode(class_name, title, st) ==
    LET title_lower == to_lowercase(title)
    IN IF ~AnyContained(class_name, DIALOG_CLASSES) THEN "None"
       ELSE IF ~st.allow_upload
               /\ AnyContained(title_lower, UPLOAD_KEYWORDS) THEN "Upload"
       ELSE IF ~st.allow_download
               /\ AnyContained(title_lower, DOWNLOAD_KEYWORDS) THEN "Download"
       ELSE "None"

get_dialog_type(class_name, title, st) ==
    LET title_lower == to_lowercase(title)
    IN IF ~AnyContained(class_name, DIALOG_CLASSES) THEN "None"
       ELSE IF ~st.allow_upload /\ st.monitor_mode = BLOCK
               /\ AnyContained(title_lower, UPLOAD_KEYWORDS) THEN "Upload"
       ELSE IF ~st.allow_download /\ st.monitor_mode = BLOCK
               /\ AnyContained(title_lower, DOWNLOAD_KEYWORDS) THEN "Download"
       ELSE "None"

\* Mutant: the active flag of a site is not looked at.
find_site_IgnoresActive(cfg, c) ==
    LET hits == {i \in DOMAIN cfg.sites :
                    contains(to_lowercase(c.current_url),
                             to_lowercase(cfg.sites[i].url_pattern))}
    IN IF hits = {} THEN None
       ELSE Some(cfg.sites[CHOOSE i \in hits : \A j \in hits : i <= j])

\* current_config.sites.iter().find(|s| s.active &&
\*     ctx.current_url.to_lowercase().contains(&s.url_pattern.to_lowercase()))
find_site(cfg, c) ==
    LET hits == {i \in DOMAIN cfg.sites :
                    /\ cfg.sites[i].active
                    /\ contains(to_lowercase(c.current_url),
                                to_lowercase(cfg.sites[i].url_pattern))}
    IN IF hits = {} THEN None
       ELSE Some(cfg.sites[CHOOSE i \in hits : \A j \in hits : i <= j])

\* url.split("://").nth(1).and_then(|s| s.split('/').next()), the whole
\* URL when it has no "://".
SCHEME_SEP == <<":","/","/">>

RECURSIVE UpTo(_, _)
UpTo(s, sep) ==
    IF s = << >> \/ starts_with(s, sep) THEN << >>
    ELSE <<Head(s)>> \o UpTo(Tail(s), sep)

RECURSIVE After(_, _)
After(s, sep) ==
    IF starts_with(s, sep) THEN SkipChars(s, Len(sep)) ELSE After(Tail(s), sep)

extract_domain(u) ==
    IF contains(u, SCHEME_SEP)
    THEN UpTo(UpTo(After(u, SCHEME_SEP), SCHEME_SEP), <<"/">>)
    ELSE u

PartialAccessInit ==
    /\ config = [enabled |-> TRUE, sites |-> << >>]
    /\ context = [current_url |-> EmptyString, current_domain |-> EmptyString]
    /\ dialogs_closed = 0
    /\ lock_config = FREE
    /\ lock_context = FREE
    /\ lock_stats = FREE

\* ------------------------------------------------------------------------
\* The enforcement thread (the loop spawned by start_monitoring)
\* ------------------------------------------------------------------------
DEBOUNCE_SECS == 2           \* the same window is not handled again for 2 s
LOOP_SLEEP_MS == 200
NO_TITLE_SLEEP_MS == 150

NoWindow == [class_name |-> EmptyString, title |-> EmptyString, hwnd |-> 0]

\* let current_config = { let c = config.lock().unwrap(); c.clone() };
\* the lock is taken in one step and released by the step that copies.
E_LockConfig ==
    /\ epc = "e_config"
    /\ lock_config = FREE
    /\ lock_config' = ENFORCER
    /\ epc' = "e_config_copy"
    /\ UNCHANGED <<current_config, ctx, site, window, dialog_type,
                   last_blocked_hwnd, last_blocked_time, eiters, posted, reports,
                   sharedVars, lock_context, lock_stats, now>>
    /\ UNCHANGED <<mainVars, browserVars, trackerVars, historyVars>>

\* Mutant: the guard of the config lock is kept after the copy.
E_CopyConfig_KeepsLock ==
    /\ epc = "e_config_copy"
    /\ current_config' = config
    /\ epc' = IF config.enabled THEN "e_context" ELSE "e_sleep"
    /\ UNCHANGED <<ctx, site, window, dialog_type, last_blocked_hwnd,
                   last_blocked_time, eiters, posted, reports, sharedVars,
                   lockVars, now>>
    /\ UNCHANGED <<mainVars, browserVars, trackerVars, historyVars>>

E_CopyConfig ==
    /\ epc = "e_config_copy"
    /\ current_config' = config
    /\ lock_config' = FREE
    /\ epc' = IF config.enabled THEN "e_context" ELSE "e_sleep"
    /\ UNCHANGED <<ctx, site, window, dialog_type, last_blocked_hwnd,
                   last_blocked_time, eiters, posted, reports, sharedVars,
                   lock_context, lock_stats, now>>
    /\ UNCHANGED <<mainVars, browserVars, trackerVars, historyVars>>

\* let ctx = { let c = context.lock().unwrap(); c.clone() };
E_LockContext ==
    /\ epc = "e_context"
    /\ lock_context = FREE
    /\ lock_context' = ENFORCER
    /\ epc' = "e_context_copy"
    /\ UNCHANGED <<current_config, ctx, site, window, dialog_type,
                   last_blocked_hwnd, last_blocked_time, eiters, posted, reports,
                   sharedVars, lock_config, lock_stats, now>>
    /\ UNCHANGED <<mainVars, browserVars, trackerVars, historyVars>>

\* Mutant: the guard of the context lock is kept after the copy.
E_CopyContext_KeepsLock ==
    /\ epc = "e_context_copy"
    /\ ctx' = context
    /\ site' = find_site(current_config, context)
    /\ epc' = IF IsSome(site') THEN "e_window" ELSE "e_sleep"
    /\ UNCHANGED <<current_config, window, dialog_type, last_blocked_hwnd,
                   last_blocked_time, eiters, posted, reports, sharedVars,
                   lockVars, now>>
    /\ UNCHANGED <<mainVars, browserVars, trackerVars, historyVars>>

\* The copy of the context, its release, and the search for the site.
E_CopyContext ==
    /\ epc = "e_context_copy"
    /\ ctx' = context
    /\ lock_context' = FREE
    /\ site' = find_site(current_config, context)
    /\ epc' = IF IsSome(site') THEN "e_window" ELSE "e_sleep"
    /\ UNCHANGED <<current_config, window, dialog_type, last_blocked_hwnd,
                   last_blocked_time, eiters, posted, reports, sharedVars,
                   lock_config, lock_stats, now>>
    /\ UNCHANGED <<mainVars, browserVars, trackerVars, historyVars>>

\* Mutant: no debounce of the window closed last.
E_Inspect_NoDebounce(w) ==
    /\ epc = "e_window"
    /\ window' = w
    /\ IF w.hwnd = 0
       THEN /\ epc' = "e_sleep"
            /\ UNCHANGED <<dialog_type, last_blocked_hwnd, last_blocked_time, posted>>
       ELSE IF Len(w.title) = 0
       THEN /\ epc' = "e_sleep_short"
            /\ UNCHANGED <<dialog_type, last_blocked_hwnd, last_blocked_time, posted>>
       ELSE /\ dialog_type' = get_dialog_type(w.class_name, w.title, Unwrap(site))
            /\ IF dialog_type' # "None"
               THEN /\ posted' = Append(posted, [hwnd |-> w.hwnd, at |-> now])
                    /\ last_blocked_hwnd' = Some(w.hwnd)
                    /\ last_blocked_time' = now
                    /\ epc' = "e_stats"
               ELSE /\ epc' = "e_sleep"
                    /\ UNCHANGED <<last_blocked_hwnd, last_blocked_time, posted>>
    /\ UNCHANGED <<current_config, ctx, site, eiters, reports, sharedVars,
                   lockVars, now>>
    /\ UNCHANGED <<mainVars, browserVars, trackerVars, historyVars>>

\* GetForegroundWindow, the debounce, GetClassNameW / GetWindowTextW, the
\* classification and, for a restricted dialog, PostMessageW(WM_CLOSE) and
\* the debounce record.  w is what the OS shows in the foreground.
E_Inspect(w) ==
    /\ epc = "e_window"
    /\ window' = w
    /\ IF w.hwnd = 0
       THEN /\ epc' = "e_sleep"
            /\ UNCHANGED <<dialog_type, last_blocked_hwnd, last_blocked_time, posted>>
       ELSE IF Some(w.hwnd) = last_blocked_hwnd
               /\ now - last_blocked_time < DEBOUNCE_SECS * 1000
       THEN /\ epc' = "e_sleep"
            /\ UNCHANGED <<dialog_type, last_blocked_hwnd, last_blocked_time, posted>>
       ELSE IF Len(w.title) = 0
       THEN /\ epc' = "e_sleep_short"
            /\ UNCHANGED <<dialog_type, last_blocked_hwnd, last_blocked_time, posted>>
       ELSE /\ dialog_type' = get_dialog_type(w.class_name, w.title, Unwrap(site))
            /\ IF dialog_type' # "None"
               THEN /\ posted' = Append(posted, [hwnd |-> w.hwnd, at |-> now])
                    /\ last_blocked_hwnd' = Some(w.hwnd)
                    /\ last_blocked_time' = now
                    /\ epc' = "e_stats"
               ELSE /\ epc' = "e_sleep"
                    /\ UNCHANGED <<last_blocked_hwnd, last_blocked_time, posted>>
    /\ UNCHANGED <<current_config, ctx, site, eiters, reports, sharedVars,
                   lockVars, now>>
    /\ UNCHANGED <<mainVars, browserVars, trackerVars, historyVars>>

\* let mut s = stats.lock().unwrap(); s.dialogs_closed += 1;
\* The guard s lives until the end of the enclosing block, that is until the
\* report has returned.
E_CountClosed ==
    /\ epc = "e_stats"
    /\ lock_stats = FREE
    /\ lock_stats' = ENFORCER
    /\ dialogs_closed' = dialogs_closed + 1
    /\ epc' = "e_send"
    /\ UNCHANGED <<current_config, ctx, site, window, dialog_type,
                   last_blocked_hwnd, last_blocked_time, eiters, posted, reports,
                   config, context, lock_config, lock_context, now>>
    /\ UNCHANGED <<mainVars, browserVars, trackerVars, historyVars>>

\* Mutant: every report goes to the upload-attempt endpoint.
E_SendReport_AlwaysUpload ==
    /\ epc = "e_send"
    /\ reports' = Append(reports,
          [url |-> ctx.current_url,
           monitor_mode |-> Unwrap(site).monitor_mode,
           endpoint |-> "upload_attempt",
           domain |-> ctx.current_domain,
           file_type |-> "Unknown",
           blocked |-> TRUE])
    /\ epc' = "e_report_wait"
    /\ UNCHANGED <<current_config, ctx, site, window, dialog_type,
                   last_blocked_hwnd, last_blocked_time, eiters, posted,
                   sharedVars, lockVars, now>>
    /\ UNCHANGED <<mainVars, browserVars, trackerVars, historyVars>>

\* rt.block_on(api.record_access_attempt(attempt_data, is_upload)): the
\* request goes out and the thread waits for the answer.
E_SendReport ==
    /\ epc = "e_send"
    /\ reports' = Append(reports,
          [url |-> ctx.current_url,
           monitor_mode |-> Unwrap(site).monitor_mode,
           endpoint |-> IF dialog_type = "Upload" THEN "upload_attempt"
                        ELSE "download_attempt",
           domain |-> ctx.current_domain,
           file_type |-> "Unknown",
           blocked |-> TRUE])
    /\ epc' = "e_report_wait"
    /\ UNCHANGED <<current_config, ctx, site, window, dialog_type,
                   last_blocked_hwnd, last_blocked_time, eiters, posted,
                   sharedVars, lockVars, now>>
    /\ UNCHANGED <<mainVars, browserVars, trackerVars, historyVars>>

\* The report returns after d milliseconds (answer, error or timeout; the
\* result is not used) and the block ends, which drops the guard of the
\* stats lock.
E_ReportReturns(d) ==
    /\ epc = "e_report_wait"
    /\ now' = now + d
    /\ lock_stats' = FREE
    /\ epc' = "e_sleep"
    /\ UNCHANGED <<current_config, ctx, site, window, dialog_type,
                   last_blocked_hwnd, last_blocked_time, eiters, posted, reports,
                   sharedVars, lock_config, lock_context>>
    /\ UNCHANGED <<mainVars, browserVars, trackerVars, historyVars>>

\* std::thread::sleep of 200 ms (150 ms after an unreadable title), then the
\* next iteration; the locals of the iteration go out of scope.
E_Sleep ==
    /\ epc \in {"e_sleep", "e_sleep_short"}
    /\ now' = now + (IF epc = "e_sleep" THEN LOOP_SLEEP_MS ELSE NO_TITLE_SLEEP_MS)
    /\ eiters' = eiters + 1
    /\ epc' = "e_config"
    /\ current_config' = [enabled |-> TRUE, sites |-> << >>]
    /\ ctx' = [current_url |-> EmptyString, current_domain |-> EmptyString]
    /\ site' = None
    /\ window' = NoWindow
    /\ dialog_type' = "None"
    /\ UNCHANGED <<last_blocked_hwnd, last_blocked_time, posted, reports,
                   sharedVars, lockVars>>
    /\ UNCHANGED <<mainVars, browserVars, trackerVars, historyVars>>

EnforcerInit ==
    /\ epc = "not_started"
    /\ current_config = [enabled |-> TRUE, sites |-> << >>]
    /\ ctx = [current_url |-> EmptyString, current_domain |-> EmptyString]
    /\ site = None
    /\ window = NoWindow
    /\ dialog_type = "None"
    /\ last_blocked_hwnd = None
    /\ last_blocked_time = 0
    /\ eiters = 0
    /\ posted = << >>
    /\ reports = << >>

\* ------------------------------------------------------------------------
\* The browser monitor on its own: one update_timing per orchestrator tick,
\* CHECK_INTERVAL seconds apart, fed by the environment's URL discovery, and
\* the snapshot taken by the synchronization step.
\* ------------------------------------------------------------------------
MaxUrls == 55        \* distinct URLs the environment visits
MaxDetours == 1      \* inputs other than a not yet visited URL
MaxRevisit == 2      \* the earliest URLs the environment may come back to

DIGITS == <<"0","1","2","3","4","5","6","7","8","9">>

RECURSIVE Decimal(_)
Decimal(n) ==
    IF n < 10 THEN <<DIGITS[n + 1]>>
    ELSE Decimal(n \div 10) \o <<DIGITS[(n % 10) + 1]>>

\* The i-th address the environment can show in the address bar.
Url(i) == HTTPS \o <<"s">> \o Decimal(i) \o <<".","i","o","/">>

Visited == DOMAIN total_times \cup DOMAIN url_timers

\* History of what update_timing appended: a tick that makes a URL the
\* last-seen URL has appended it.
Arrival ==
    arrivals' = IF last_url' # last_url /\ last_url' # EmptyString
                THEN Append(arrivals, last_url') ELSE arrivals

TickMs == CHECK_INTERVAL * 1000

\* The orchestrator tick shows a URL never seen before.
VisitFresh ==
    /\ Cardinality(Visited) < MaxUrls
    /\ now' = now + TickMs
    /\ update_timing(Some(Url(Cardinality(Visited) + 1)), now')
    /\ Arrival
    /\ UNCHANGED detours

\* The tick shows one of the first URLs again, or the URL it showed last.
VisitAgain ==
    /\ detours < MaxDetours
    /\ \E u \in ({Url(i) : i \in 1..MaxRevisit} \cap Visited)
                 \cup ({last_url} \ {EmptyString}) :
          /\ now' = now + TickMs
          /\ update_timing(Some(u), now')
    /\ Arrival
    /\ detours' = detours + 1

\* The tick finds no URL.
VisitNone ==
    /\ detours < MaxDetours
    /\ now' = now + TickMs
    /\ update_timing(None, now')
    /\ Arrival
    /\ detours' = detours + 1

TakeUrlSnapshot ==
    /\ detours < MaxDetours
    /\ \E clear_after \in BOOLEAN :
          /\ get_url_data_for_api(clear_after)
          /\ arrivals' = IF clear_after THEN << >> ELSE arrivals
    /\ detours' = detours + 1
    /\ UNCHANGED now

\* ------------------------------------------------------------------------
\* The tracker on its own: one track_app_usage per orchestrator tick, the
\* environment choosing the time since the previous tick and what the OS
\* answers (last-input query, tick counts, foreground process).
\* ------------------------------------------------------------------------
MaxTrackerTicks == 3

\* Times between two ticks: just under and exactly the minimum session time,
\* and what then completes a 300 s session.
TrackerDeltas ==
    {MINIMUM_APP_TIME * 1000 - 1, MINIMUM_APP_TIME * 1000,
     (SESSION_FLUSH_SECS - MINIMUM_APP_TIME) * 1000, SESSION_FLUSH_SECS * 1000}

\* <<current tick, tick of the last input>>: no idle time; one millisecond
\* under and exactly the threshold; and the threshold reached across the
\* wrap of the 32-bit counter.
TickPairs ==
    {<<U32Of(5000), U32Of(5000)>>,
     <<U32Of(IDLE_THRESHOLD_SECS * 1000 - 1), U32Of(0)>>,
     <<U32Of(IDLE_THRESHOLD_SECS * 1000), U32Of(0)>>,
     <<U32Of(IDLE_THRESHOLD_SECS * 500),
       U32Sub(U32Of(0), U32Of(IDLE_THRESHOLD_SECS * 500))>>}

Probes ==
    {[dwTime |-> tp[2], lii_ok |-> TRUE, fg |-> fg, tick |-> tp[1]] :
        tp \in TickPairs, fg \in {None, Some(CHROME_EXE), Some(CODE_EXE)}}
    \cup {[dwTime |-> U32Of(5000), lii_ok |-> TRUE, fg |-> Some(EXPLORER_EXE),
           tick |-> U32Of(5000)],
          [dwTime |-> U32Of(0), lii_ok |-> FALSE, fg |-> Some(CHROME_EXE),
           tick |-> U32Of(0)]}

LISTED_ORDER == <<"Browsers", "Communication", "Social Media", "Productivity",
                  "Entertainment", "Development", "Creative", "Utilities">>
Reverse(q) == [i \in DOMAIN q |-> q[Len(q) + 1 - i]]

\* Iteration orders of the category HashMap that a run may have.
CategoryOrders == {LISTED_ORDER, Reverse(LISTED_ORDER)}

\* History of the present uninterrupted run of the current app: the start of
\* its first session and the time recorded for it since.
RunHistory ==
    /\ run_first' = IF current_app' # current_app THEN app_start_time'
                    ELSE run_first
    /\ run_recorded' =
          IF current_app' # current_app THEN 0
          ELSE IF IsSome(current_app)
               THEN run_recorded
                    + MapGetOr(app_total_time', Unwrap(current_app), 0)
                    - MapGetOr(app_total_time, Unwrap(current_app), 0)
               ELSE run_recorded

TrackerTick ==
    /\ ticks < MaxTrackerTicks
    /\ \E d \in TrackerDeltas, p \in Probes :
          /\ now' = now + d
          /\ track_app_usage(now', p)
    /\ RunHistory
    /\ ticks' = ticks + 1
    /\ UNCHANGED <<browserVars, detours, arrivals, category_order, app_data, threadVars>>

EnvInit ==
    /\ now = 0
    /\ detours = 0
    /\ arrivals = << >>
    /\ ticks = 0
    /\ run_first = None
    /\ run_recorded = 0
    /\ category_order \in CategoryOrders

\* ------------------------------------------------------------------------
\* CybersecurityMonitor::run, the main loop
\* ------------------------------------------------------------------------
INITIAL_REFRESH_LEAD_SECS == 300   \* last_config_update starts 300 s back
CONFIG_REFRESH_SECS == 60
SYNC_SECS == 60

\* What a GET of the backend can give: no answer, a non-2xx status, a body
\* that does not parse, or an envelope {success, message, data}.
NetError == [kind |-> "net_error"]
HttpFailure == [kind |-> "http_failure"]
BadBody == [kind |-> "bad_body"]
Envelope(success, data) == [kind |-> "envelope", success |-> success, data |-> data]

\* Mutants: the envelope's success flag is not looked at.
get_partial_access_config_IgnoresSuccess(resp) ==
    IF resp.kind = "envelope" THEN Some(resp.data) ELSE None

get_blocked_urls_IgnoresSuccess(resp) ==
    IF resp.kind = "envelope" THEN resp.data ELSE << >>

get_partial_access_config(resp) ==
    IF resp.kind = "envelope" /\ resp.success THEN Some(resp.data) ELSE None

get_blocked_urls(resp) ==
    IF resp.kind = "envelope" /\ resp.success THEN resp.data ELSE << >>

\* A call of the backend and whether it succeeded.
Call(op, ok) == [op |-> op, ok |-> ok]

\* Lines 30-47: device registration and the first heartbeat (results not
\* used), the start of the enforcement thread, and the two timestamps.
Run_Startup(reg_ok, hb_ok) ==
    /\ mpc = "startup"
    /\ epc' = "e_config"
    /\ last_blocked_time' = now
    /\ last_sync' = now
    /\ last_config_update' = now - INITIAL_REFRESH_LEAD_SECS * 1000
    /\ mpc' = "track"
    /\ UNCHANGED <<current_config, ctx, site, window, dialog_type,
                   last_blocked_hwnd, eiters, posted, reports,
                   found_url, new_config_val, blocked_urls, iters,
                   sharedVars, lockVars, now>>
    /\ UNCHANGED <<browserVars, trackerVars, historyVars>>
    /\ UNCHANGED <<replaced, prior_config>>
    /\ calls' = <<Call("register_device", reg_ok), Call("send_heartbeat", hb_ok)>>

\* Line 56: self.app_tracker.track_app_usage().
Run_Track(p) ==
    /\ mpc = "track"
    /\ track_app_usage(now, p)
    /\ mpc' = "discover"
    /\ UNCHANGED <<found_url, new_config_val, blocked_urls, last_sync,
                   last_config_update, iters, enforcerVars, sharedVars,
                   lockVars, now>>
    /\ RunHistory
    /\ ticks' = ticks + 1
    /\ UNCHANGED <<browserVars, detours, arrivals, category_order, app_data>>
    /\ UNCHANGED <<replaced, prior_config>>
    /\ calls' = << >>

\* Mutant: a tick without a URL clears the shared context.
Run_Discover_ClearsContext(u) ==
    /\ mpc = "discover"
    /\ found_url' = u
    /\ update_timing(u, now)
    /\ mpc' = IF IsSome(u) THEN "context" ELSE "refresh"
    /\ context' = IF IsSome(u) THEN context
                  ELSE [current_url |-> EmptyString, current_domain |-> EmptyString]
    /\ UNCHANGED <<new_config_val, blocked_urls, last_sync,
                   last_config_update, iters, enforcerVars, config,
                   dialogs_closed, lockVars, now>>
    /\ Arrival
    /\ UNCHANGED <<trackerVars, detours, category_order, app_data, ticks, run_first,
                   run_recorded>>
    /\ UNCHANGED <<replaced, prior_config, calls>>

\* Lines 59-89: URL discovery and update_timing with what it found.
Run_Discover(u) ==
    /\ mpc = "discover"
    /\ found_url' = u
    /\ update_timing(u, now)
    /\ mpc' = IF IsSome(u) THEN "context" ELSE "refresh"
    /\ UNCHANGED <<new_config_val, blocked_urls, last_sync,
                   last_config_update, iters, enforcerVars, sharedVars,
                   lockVars, now>>
    /\ Arrival
    /\ UNCHANGED <<trackerVars, detours, category_order, app_data, ticks, run_first,
                   run_recorded>>
    /\ UNCHANGED <<replaced, prior_config, calls>>

\* Line 69: context.lock().
Run_LockContext ==
    /\ mpc = "context"
    /\ lock_context = FREE
    /\ lock_context' = MAIN
    /\ mpc' = "context_write"
    /\ UNCHANGED <<found_url, new_config_val, blocked_urls, last_sync,
                   last_config_update, iters, enforcerVars, sharedVars,
                   lock_config, lock_stats, now>>
    /\ UNCHANGED <<browserVars, trackerVars, historyVars>>
    /\ UNCHANGED <<replaced, prior_config, calls>>

\* Lines 69-77: the URL and its domain are written and the guard is dropped.
Run_WriteContext ==
    /\ mpc = "context_write"
    /\ context' = [current_url |-> Unwrap(found_url),
                   current_domain |-> extract_domain(Unwrap(found_url))]
    /\ lock_context' = FREE
    /\ mpc' = "refresh"
    /\ UNCHANGED <<found_url, new_config_val, blocked_urls, last_sync,
                   last_config_update, iters, enforcerVars, config,
                   dialogs_closed, lock_config, lock_stats, now>>
    /\ UNCHANGED <<browserVars, trackerVars, historyVars>>
    /\ UNCHANGED <<replaced, prior_config, calls>>

RefreshDue == now - last_config_update >= CONFIG_REFRESH_SECS * 1000
SyncDue == now - last_sync >= SYNC_SECS * 1000

Run_SkipRefresh ==
    /\ mpc = "refresh"
    /\ ~RefreshDue
    /\ mpc' = "sync"
    /\ UNCHANGED <<found_url, new_config_val, blocked_urls, last_sync,
                   last_config_update, iters, enforcerVars, sharedVars,
                   lockVars, now>>
    /\ UNCHANGED <<browserVars, trackerVars, historyVars>>
    /\ UNCHANGED <<replaced, prior_config, calls>>

\* update_config, first half: the fetch, awaited before any lock is taken.
Run_FetchConfig(resp) ==
    /\ mpc = "refresh"
    /\ RefreshDue
    /\ new_config_val' = get_partial_access_config(resp)
    /\ mpc' = IF IsSome(new_config_val') THEN "config" ELSE "blocked"
    /\ UNCHANGED <<found_url, blocked_urls, last_sync,
                   last_config_update, iters, enforcerVars, sharedVars,
                   lockVars, now>>
    /\ UNCHANGED <<browserVars, trackerVars, historyVars>>
    /\ UNCHANGED <<replaced, prior_config>>
    /\ calls' = Append(calls, Call("get_partial_access_config",
                                   resp.kind = "envelope" /\ resp.success))

\* update_config, line 168: self.config.lock().
Run_LockConfig ==
    /\ mpc = "config"
    /\ lock_config = FREE
    /\ lock_config' = MAIN
    /\ mpc' = "config_write"
    /\ UNCHANGED <<found_url, new_config_val, blocked_urls, last_sync,
                   last_config_update, iters, enforcerVars, sharedVars,
                   lock_context, lock_stats, now>>
    /\ UNCHANGED <<browserVars, trackerVars, historyVars>>
    /\ UNCHANGED <<replaced, prior_config, calls>>

\* update_config, lines 170-193: the fields are replaced and the guard dropped.
Run_WriteConfig ==
    /\ mpc = "config_write"
    /\ config' = apply_config(config, Unwrap(new_config_val))
    /\ lock_config' = FREE
    /\ mpc' = "blocked"
    /\ UNCHANGED <<found_url, new_config_val, blocked_urls, last_sync,
                   last_config_update, iters, enforcerVars, context,
                   dialogs_closed, lock_context, lock_stats, now>>
    /\ UNCHANGED <<browserVars, trackerVars, historyVars>>
    /\ UNCHANGED <<replaced, calls>>
    /\ prior_config' = Some(config)

\* Mutant: the refresh time is recorded only when the fetch succeeded.
Run_RefreshBlacklist_OnSuccess(resp) ==
    /\ mpc = "blocked"
    /\ blocked_urls' = get_blocked_urls(resp)
    /\ update_blacklist(blocked_urls')
    /\ last_config_update' = IF resp.kind = "envelope" /\ resp.success
                             THEN now ELSE last_config_update
    /\ mpc' = "sync"
    /\ UNCHANGED <<found_url, new_config_val, last_sync, iters, enforcerVars,
                   sharedVars, lockVars, now>>
    /\ UNCHANGED <<trackerVars, historyVars>>
    /\ replaced' = api_blacklist
    /\ UNCHANGED prior_config
    /\ calls' = Append(calls, Call("get_blocked_urls", resp.kind = "envelope" /\ resp.success))

\* Lines 99-107: the blocked URLs are fetched and handed to update_blacklist.
Run_RefreshBlacklist(resp) ==
    /\ mpc = "blocked"
    /\ blocked_urls' = get_blocked_urls(resp)
    /\ update_blacklist(blocked_urls')
    /\ last_config_update' = now
    /\ mpc' = "sync"
    /\ UNCHANGED <<found_url, new_config_val, last_sync, iters, enforcerVars,
                   sharedVars, lockVars, now>>
    /\ UNCHANGED <<trackerVars, historyVars>>
    /\ replaced' = api_blacklist
    /\ UNCHANGED prior_config
    /\ calls' = Append(calls, Call("get_blocked_urls", resp.kind = "envelope" /\ resp.success))

Run_SkipSync ==
    /\ mpc = "sync"
    /\ ~SyncDue
    /\ mpc' = "sleep"
    /\ UNCHANGED <<found_url, new_config_val, blocked_urls, last_sync,
                   last_config_update, iters, enforcerVars, sharedVars,
                   lockVars, now>>
    /\ UNCHANGED <<browserVars, trackerVars, historyVars>>
    /\ UNCHANGED <<replaced, prior_config, calls>>

\* Mutant: the URL snapshot is uploaded before the app-usage snapshot.
Run_Sync_UrlsFirst(hb_ok, apps_ok, urls_ok, logs_ok) ==
    /\ mpc = "sync"
    /\ SyncDue
    /\ get_url_data_for_api(TRUE)
    /\ last_sync' = now
    /\ mpc' = "sleep"
    /\ UNCHANGED <<found_url, new_config_val, blocked_urls,
                   last_config_update, iters, enforcerVars, sharedVars,
                   lockVars, now>>
    /\ arrivals' = << >>
    /\ get_app_data_for_api(now)
    /\ UNCHANGED <<trackerVars, detours, category_order, ticks, run_first,
                   run_recorded>>
    /\ UNCHANGED <<replaced, prior_config>>
    /\ calls' = calls \o <<Call("send_heartbeat", hb_ok),
                          Call("upload_urls", urls_ok),
                          Call("upload_app_usage", apps_ok),
                          Call("upload_logs", logs_ok)>>

\* Mutant: the pending history is cleared only when the upload succeeded.
Run_Sync_ClearsOnSuccess(hb_ok, apps_ok, urls_ok, logs_ok) ==
    /\ mpc = "sync"
    /\ SyncDue
    /\ get_url_data_for_api(urls_ok)
    /\ last_sync' = now
    /\ mpc' = "sleep"
    /\ UNCHANGED <<found_url, new_config_val, blocked_urls,
                   last_config_update, iters, enforcerVars, sharedVars,
                   lockVars, now>>
    /\ arrivals' = << >>
    /\ get_app_data_for_api(now)
    /\ UNCHANGED <<trackerVars, detours, category_order, ticks, run_first,
                   run_recorded>>
    /\ UNCHANGED <<replaced, prior_config>>
    /\ calls' = calls \o <<Call("send_heartbeat", hb_ok),
                          Call("upload_app_usage", apps_ok),
                          Call("upload_urls", urls_ok),
                          Call("upload_logs", logs_ok)>>

\* Lines 111-130: heartbeat, app usage, the URL snapshot (cleared after it is
\* taken) and the logs go to the backend; the results are not used.
Run_Sync(hb_ok, apps_ok, urls_ok, logs_ok) ==
    /\ mpc = "sync"
    /\ SyncDue
    /\ get_url_data_for_api(TRUE)
    /\ last_sync' = now
    /\ mpc' = "sleep"
    /\ UNCHANGED <<found_url, new_config_val, blocked_urls,
                   last_config_update, iters, enforcerVars, sharedVars,
                   lockVars, now>>
    /\ arrivals' = << >>
    /\ get_app_data_for_api(now)
    /\ UNCHANGED <<trackerVars, detours, category_order, ticks, run_first,
                   run_recorded>>
    /\ UNCHANGED <<replaced, prior_config>>
    /\ calls' = calls \o <<Call("send_heartbeat", hb_ok),
                          Call("upload_app_usage", apps_ok),
                          Call("upload_urls", urls_ok),
                          Call("upload_logs", logs_ok)>>

\* Line 132: sleep(CHECK_INTERVAL); d is the time until the thread runs
\* again, the interval at least.  The locals of the iteration go out of
\* scope (blocked_urls is kept as the record of the last fetch).
Run_Sleep(d) ==
    /\ mpc = "sleep"
    /\ now' = now + d
    /\ iters' = iters + 1
    /\ mpc' = "track"
    /\ found_url' = None
    /\ new_config_val' = None
    /\ UNCHANGED <<blocked_urls, last_sync,
                   last_config_update, enforcerVars, sharedVars, lockVars>>
    /\ UNCHANGED <<browserVars, trackerVars, historyVars>>
    /\ UNCHANGED <<replaced, prior_config, calls>>

MainInit ==
    /\ mpc = "startup"
    /\ found_url = None
    /\ new_config_val = None
    /\ blocked_urls = << >>
    /\ last_sync = 0
    /\ last_config_update = 0
    /\ iters = 0
    /\ replaced = << >>
    /\ prior_config = None
    /\ calls = << >>

Init ==
    /\ EnvInit
    /\ BrowserInit
    /\ TrackerInit
    /\ PartialAccessInit
    /\ EnforcerInit
    /\ MainInit

vars == <<now, browserVars, detours, arrivals, trackerVars, category_order, app_data, ticks,
          run_first, run_recorded, sharedVars, lockVars, enforcerVars, mainVars>>

BrowserNext ==
    /\ VisitFresh \/ VisitAgain \/ VisitNone \/ TakeUrlSnapshot
    /\ UNCHANGED <<trackerVars, category_order, app_data, ticks, run_first, run_recorded,
                   threadVars>>

SpecBrowser == Init /\ [][BrowserNext]_vars

TrackerNext == TrackerTick

SpecTracker == Init /\ [][TrackerNext]_vars

\* ------------------------------------------------------------------------
\* The app-usage snapshot on its own: the operator works through a row of
\* apps, staying a chosen time in each, and snapshots are taken in between.
\* ------------------------------------------------------------------------
MaxAppTicks == 8     \* tracker ticks of a run

AppRow == <<Some(CHROME_EXE), Some(CODE_EXE), Some(SLACK_EXE), Some(SPOTIFY_EXE),
            Some(BLENDER_EXE), Some(ZOOM_EXE), Some(UNKNOWN_EXE)>>

\* Time spent in the app of the row that the tick closes: 10, 30 and 20
\* seconds in the first three, a chosen time in the others; the first tick
\* comes one check interval after the start.
EXAMPLE_STAYS == <<10000, 30000, 20000>>
AppStays == {10000, 30000}
StaysBefore(tick) ==
    IF tick = 1 THEN {CHECK_INTERVAL * 1000}
    ELSE IF tick - 1 \in DOMAIN EXAMPLE_STAYS THEN {EXAMPLE_STAYS[tick - 1]}
    ELSE AppStays

AppTick ==
    /\ ticks < MaxAppTicks
    /\ \E d \in StaysBefore(ticks + 1) :
          /\ now' = now + d
          /\ track_app_usage(now',
                [dwTime |-> U32Of(5000), lii_ok |-> TRUE, fg |-> IF ticks + 1 \in DOMAIN AppRow THEN AppRow[ticks + 1]
                        ELSE None,
                 tick |-> U32Of(5000)])
    /\ RunHistory
    /\ ticks' = ticks + 1
    /\ UNCHANGED <<browserVars, detours, arrivals, category_order, app_data, threadVars>>

TakeAppSnapshot ==
    /\ get_app_data_for_api(now)
    /\ UNCHANGED <<now, browserVars, trackerVars, detours, arrivals, category_order,
                   ticks, run_first, run_recorded, threadVars>>

AppNext == AppTick \/ TakeAppSnapshot
SpecApps == Init /\ [][AppNext]_vars

\* ------------------------------------------------------------------------
\* Blacklist matching on its own: the environment installs a blacklist with
\* update_blacklist and shows URLs to update_timing, whose blocked counter
\* tells what is_blocked answered.
\* ------------------------------------------------------------------------
MaxChecks == 2       \* URLs shown to update_timing

MatchUrls ==
    {<<"h","t","t","p","s",":","/","/","w","w","w",".","F","a","c","e","b","o","o","k",".","c","o","m","/","l","o","g","i","n","/">>,
     <<"a","b","c">>,
     <<"h","t","t","p",":","/","/","m","a","i","l",".","b","a","d","s","i","t","e",".","c","o","m">>,
     <<"h","t","t","p",":","/","/","b","a","d","s","i","t","e",".","c","o","m",".","e","v","i","l",".","o","r","g">>,
     <<"h","t","t","p",":","/","/","h","t","t","p","s",":","/","/","x",".","i","o">>,
     <<N_TILDE,".","a">>,
     <<"h","t","t","p","s",":","/","/","x",".","i","o","/","a","?","b","=","1">>,
     <<"x",".","i","o">>,
     <<"z","z","z","z">>}

RawBlacklists ==
    {<<<<"f","a","c","e","b","o","o","k",".","c","o","m">>>>,
     <<<<"a">>>>,
     <<<<"*",".","b","a","d","s","i","t","e",".","c","o","m">>>>,
     <<<<"s",":","/","/","x">>>>,
     <<<<" ","H","T","T","P","S",":","/","/","W","W","W",".","X",".","I","O","/"," ">>>>,
     <<<<"*","x",".","i","o","/","a","?","b","=","*">>>>,
     <<<<"/">>>>,
     <<<<" ","H","T","T","P","S",":","/","/"," ">>>>,
     <<<<"q","q","q">>, <<"w","w","w",".">>, <<" ">>>>,
     <<<<"y","y","y">>, <<"e","v","i","l",".","o","r","g">>>>}

InstallBlacklist ==
    /\ \E raw \in RawBlacklists :
          /\ blocked_urls' = raw
          /\ update_blacklist(blocked_urls')
    /\ UNCHANGED <<now, detours, arrivals>>

ObserveUrl ==
    /\ detours < MaxChecks
    /\ \E u \in MatchUrls :
          /\ now' = now + TickMs
          /\ update_timing(Some(u), now')
    /\ Arrival
    /\ detours' = detours + 1
    /\ UNCHANGED blocked_urls

MatchNext ==
    /\ InstallBlacklist \/ ObserveUrl
    /\ UNCHANGED <<trackerVars, category_order, app_data, ticks, run_first, run_recorded,
                   sharedVars, lockVars, enforcerVars>>
    /\ UNCHANGED <<mpc, found_url, new_config_val, last_sync, last_config_update,
                   iters, replaced, prior_config, calls>>

SpecMatch == Init /\ [][MatchNext]_vars

\* ------------------------------------------------------------------------
\* Dwell tracking on its own: ticks that show one of three URLs or none, a
\* blacklist that blocks the second of them, and snapshots in between.
\* ------------------------------------------------------------------------
MaxDwellTicks == 4   \* ticks of a run

DwellInputs == {None, Some(Url(1)), Some(Url(2)), Some(Url(3))}

\* Time since the previous tick: the check interval, or longer.
DwellDeltas == {CHECK_INTERVAL * 1000, CHECK_INTERVAL * 1000 + 500}

DwellTick ==
    /\ detours < MaxDwellTicks
    /\ \E u \in DwellInputs, d \in DwellDeltas :
          /\ now' = now + d
          /\ update_timing(u, now')
    /\ Arrival
    /\ detours' = detours + 1

BlockSecond ==
    /\ update_blacklist(<<<<"S","2",".","i","o">>>>)
    /\ UNCHANGED <<now, detours, arrivals>>

DwellSnapshot ==
    /\ \E clear_after \in BOOLEAN :
          /\ get_url_data_for_api(clear_after)
          /\ arrivals' = IF clear_after THEN << >> ELSE arrivals
    /\ UNCHANGED <<now, detours>>

DwellNext ==
    /\ DwellTick \/ BlockSecond \/ DwellSnapshot
    /\ UNCHANGED <<trackerVars, category_order, app_data, ticks, run_first, run_recorded,
                   threadVars>>

SpecDwell == Init /\ [][DwellNext]_vars

\* ------------------------------------------------------------------------
\* The program: the main loop and the enforcement thread, interleaved, with
\* the environment choosing what the OS and the backend answer.
\* ------------------------------------------------------------------------
MaxLoopIters == 1    \* iterations of the main loop
MaxEnfIters == 1     \* iterations of the enforcement loop

\* A site that allows neither upload nor download, in blocking mode; its
\* pattern matches Url(1) once both are lower-cased.
PORTAL == [url_pattern |-> <<"S","1",".","I","O">>, allow_upload |-> FALSE,
           allow_download |-> FALSE, monitor_mode |-> BLOCK, active |-> TRUE]

ConfigResponses ==
    {NetError,
     Envelope(TRUE, [enabled |-> JBool(TRUE),
                     partialAccessSites |-> JArray(<<JMalformed, JSite(PORTAL)>>)])}

\* Blocked-URL lists the backend may answer with; a failed fetch counts as
\* the empty list.
BlockedResponses ==
    {HttpFailure,
     Envelope(TRUE, << >>),
     Envelope(TRUE, <<<<" ","S","2",".","I","O"," ">>, <<" "," ">>,
                      <<"a","d","s","*">> >>)}

OPEN_DIALOG == [class_name |-> <<"#","3","2","7","7","0">>, title |-> <<"O","p","e","n">>,
                hwnd |-> 1]
PAGE_WINDOW == [class_name |-> <<"C","h","r","o","m","e","_","W","i","d","g","e","t",
                                 "W","i","n","_","1">>,
                title |-> <<"D","o","c","s">>,
                hwnd |-> 2]
UNTITLED_WINDOW == [class_name |-> <<"#","3","2","7","7","0">>, title |-> EmptyString,
                    hwnd |-> 3]
Windows == {NoWindow, OPEN_DIALOG, PAGE_WINDOW, UNTITLED_WINDOW}

LoopProbes == {[dwTime |-> U32Of(5000), lii_ok |-> TRUE, fg |-> Some(CHROME_EXE),
                tick |-> U32Of(5000)]}
LoopUrls == {None, Some(Url(1))}
LoopDelays == {CHECK_INTERVAL * 1000, CONFIG_REFRESH_SECS * 1000}

MainStep ==
    \/ \E ok \in BOOLEAN : Run_Startup(ok, ok)
    \/ \E p \in LoopProbes : Run_Track(p)
    \/ \E u \in LoopUrls : Run_Discover(u)
    \/ Run_LockContext
    \/ Run_WriteContext
    \/ Run_SkipRefresh
    \/ \E resp \in ConfigResponses : Run_FetchConfig(resp)
    \/ Run_LockConfig
    \/ Run_WriteConfig
    \/ \E resp \in BlockedResponses : Run_RefreshBlacklist(resp)
    \/ Run_SkipSync
    \/ \E ok \in BOOLEAN : Run_Sync(ok, ok, ok, ok)
    \/ (iters < MaxLoopIters /\ \E d \in LoopDelays : Run_Sleep(d))

EnforcerStep ==
    \/ E_LockConfig
    \/ E_CopyConfig
    \/ E_LockContext
    \/ E_CopyContext
    \/ \E w \in Windows : E_Inspect(w)
    \/ E_CountClosed
    \/ E_SendReport
    \/ E_ReportReturns(0)
    \/ (eiters < MaxEnfIters /\ E_Sleep)

Next == MainStep \/ EnforcerStep

Spec == Init /\ [][Next]_vars

\* The same two threads with one answer of each kind from the environment:
\* a URL of the restricted site in every tick, fetches that succeed, and the
\* upload dialog in the foreground.
FairMainStep ==
    \/ Run_Startup(TRUE, TRUE)
    \/ \E p \in LoopProbes : Run_Track(p)
    \/ Run_Discover(Some(Url(1)))
    \/ Run_LockContext
    \/ Run_WriteContext
    \/ Run_SkipRefresh
    \/ Run_FetchConfig(Envelope(TRUE, [enabled |-> JBool(TRUE),
                          partialAccessSites |-> JArray(<<JSite(PORTAL)>>)]))
    \/ Run_LockConfig
    \/ Run_WriteConfig
    \/ Run_RefreshBlacklist(Envelope(TRUE, << >>))
    \/ Run_SkipSync
    \/ Run_Sync(TRUE, TRUE, TRUE, TRUE)
    \/ (iters < MaxLoopIters /\ \E d \in LoopDelays : Run_Sleep(d))

FairEnforcerStep ==
    \/ E_LockConfig
    \/ E_CopyConfig
    \/ E_LockContext
    \/ E_CopyContext
    \/ E_Inspect(OPEN_DIALOG)
    \/ E_CountClosed
    \/ E_SendReport
    \/ E_ReportReturns(0)
    \/ (eiters < MaxEnfIters /\ E_Sleep)

FairNext == FairMainStep \/ FairEnforcerStep

\* Fair scheduling: a thread that can take a step of its own takes it, and a
\* thread waiting for a lock that is free again and again gets it.  Nothing
\* is assumed about the return of a network report or the end of a sleep.
FairSpec ==
    /\ Init
    /\ [][FairNext]_vars
    /\ SF_vars(Run_LockContext)
    /\ SF_vars(Run_LockConfig)
    /\ WF_vars(E_CopyConfig)
    /\ WF_vars(E_CopyContext)

\* ------------------------------------------------------------------------
\* The policy refresh on its own: the main loop with the policies the
\* backend may answer with, the enforcement thread not scheduled.
\* ------------------------------------------------------------------------
MaxPolicyIters == 2  \* iterations of the main loop after the first

\* A second site: uploads allowed, downloads not.
ARCHIVE == [url_pattern |-> <<"f","i","l","e","s">>, allow_upload |-> TRUE,
            allow_download |-> FALSE, monitor_mode |-> BLOCK, active |-> TRUE]

SiteArrays ==
    {<<JSite(PORTAL), JMalformed, JSite(ARCHIVE)>>,
     <<JOther, JSite(ARCHIVE)>>,
     << >>}

\* Policies under the primary keys, under the alternate keys, with a value
\* of another type under a key, with both keys, and with keys missing.
PolicyPayloads ==
    {[enabled |-> JBool(b), partialAccessSites |-> JArray(a)] :
        b \in BOOLEAN, a \in SiteArrays}
    \cup {[active |-> JBool(b), sites |-> JArray(a)] :
            b \in BOOLEAN, a \in SiteArrays}
    \cup {[active |-> JOther, sites |-> JOther],
          [active |-> JBool(FALSE), enabled |-> JOther,
           sites |-> JArray(<<JSite(ARCHIVE)>>), partialAccessSites |-> JOther],
          [enabled |-> JBool(TRUE)],
          [sites |-> JArray(<<JSite(PORTAL)>>)],
          [message |-> JOther]}

PolicyResponses ==
    {NetError, HttpFailure, BadBody, Envelope(FALSE, [enabled |-> JBool(TRUE)])}
    \cup {Envelope(TRUE, payload) : payload \in PolicyPayloads}

PolicyStep ==
    \/ Run_Startup(TRUE, TRUE)
    \/ \E p \in LoopProbes : Run_Track(p)
    \/ Run_Discover(None)
    \/ Run_SkipRefresh
    \/ \E resp \in PolicyResponses : Run_FetchConfig(resp)
    \/ Run_LockConfig
    \/ Run_WriteConfig
    \/ Run_RefreshBlacklist(Envelope(TRUE, << >>))
    \/ Run_SkipSync
    \/ Run_Sync(TRUE, TRUE, TRUE, TRUE)
    \/ (iters < MaxPolicyIters /\ \E d \in LoopDelays : Run_Sleep(d))

SpecPolicy == Init /\ [][PolicyStep]_vars

\* ------------------------------------------------------------------------
\* The main loop against a backend whose every call may fail, the
\* enforcement thread not scheduled.
\* ------------------------------------------------------------------------
MaxBackendIters == 2 \* iterations of the main loop after the first

BackendConfigResponses ==
    {NetError, HttpFailure, BadBody,
     Envelope(FALSE, [enabled |-> JBool(TRUE),
                      partialAccessSites |-> JArray(<<JSite(ARCHIVE)>>)]),
     Envelope(TRUE, [enabled |-> JBool(FALSE),
                     partialAccessSites |-> JArray(<<JSite(PORTAL)>>)])}

BackendBlockedResponses ==
    {NetError, HttpFailure, BadBody, Envelope(FALSE, <<<<"s","1",".","i","o">>>>),
     Envelope(TRUE, <<<<"s","1",".","i","o">>>>)}

BackendStep ==
    \/ \E reg_ok, hb_ok \in BOOLEAN : Run_Startup(reg_ok, hb_ok)
    \/ \E p \in LoopProbes : Run_Track(p)
    \/ \E u \in LoopUrls : Run_Discover(u)
    \/ Run_LockContext
    \/ Run_WriteContext
    \/ Run_SkipRefresh
    \/ \E resp \in BackendConfigResponses : Run_FetchConfig(resp)
    \/ Run_LockConfig
    \/ Run_WriteConfig
    \/ \E resp \in BackendBlockedResponses : Run_RefreshBlacklist(resp)
    \/ Run_SkipSync
    \/ \E hb_ok, apps_ok, urls_ok, logs_ok \in BOOLEAN :
          Run_Sync(hb_ok, apps_ok, urls_ok, logs_ok)
    \/ (iters < MaxBackendIters /\ \E d \in LoopDelays : Run_Sleep(d))

SpecBackend == Init /\ [][BackendStep]_vars

\* ------------------------------------------------------------------------
\* Enforcement against the policies and windows that tell its conditions
\* apart: one iteration of the main loop, which sets the context to Url(1)
\* and fetches a policy, beside the enforcement thread.
\* ------------------------------------------------------------------------
MONITOR == <<"m","o","n","i","t","o","r">>
BLOCK_UPPER == <<"B","L","O","C","K">>

\* A site matching Url(1) for each setting of the two flags and the mode.
SiteVariants ==
    {[url_pattern |-> <<"s","1",".","i","o">>, allow_upload |-> up,
      allow_download |-> down, monitor_mode |-> mode, active |-> TRUE] :
        up \in BOOLEAN, down \in BOOLEAN, mode \in {BLOCK, MONITOR, BLOCK_UPPER}}

\* PORTAL switched off, and a site that matches Url(1) and restricts nothing.
DORMANT == [PORTAL EXCEPT !.active = FALSE]
OPEN_SITE == [url_pattern |-> <<"S","1">>, allow_upload |-> TRUE,
              allow_download |-> TRUE, monitor_mode |-> BLOCK, active |-> TRUE]

SiteLists ==
    {<<st>> : st \in SiteVariants}
    \cup {<<PORTAL>>, <<OPEN_SITE, PORTAL>>, <<DORMANT, ARCHIVE>>,
          <<DORMANT, ARCHIVE, PORTAL>>}

EnforcePolicies ==
    {[enabled |-> TRUE, sites |-> l] : l \in SiteLists}
    \cup {[enabled |-> FALSE, sites |-> <<PORTAL>>]}

RECURSIVE JSites(_)
JSites(l) == IF l = << >> THEN << >> ELSE <<JSite(Head(l))>> \o JSites(Tail(l))

SAVE_DIALOG == [class_name |-> <<"#","3","2","7","7","0">>, title |-> <<"S","a","v","e"," ","A","s">>,
                hwnd |-> 4]
TRANSFER_DIALOG == [class_name |-> <<"N","a","t","i","v","e","H","W","N","D","H","o","s","t">>,
                    title |-> <<"D","O","W","N","L","O","A","D"," ","o","r"," ",
                                "U","p","l","o","a","d">>,
                    hwnd |-> 5]
PRINT_DIALOG == [class_name |-> <<"#","3","2","7","7","0">>, title |-> <<"P","r","i","n","t">>,
                 hwnd |-> 6]
OPEN_PAGE == [class_name |-> <<"C","h","r","o","m","e","_","W","i","d","g","e","t",
                               "W","i","n","_","1">>,
              title |-> <<"O","p","e","n"," ","S","a","v","e">>,
              hwnd |-> 7]
EnforceWindows ==
    {NoWindow, OPEN_DIALOG, UNTITLED_WINDOW, SAVE_DIALOG, TRANSFER_DIALOG,
     PRINT_DIALOG, OPEN_PAGE}

EnforceMainStep ==
    \/ Run_Startup(TRUE, TRUE)
    \/ \E p \in LoopProbes : Run_Track(p)
    \/ Run_Discover(Some(Url(1)))
    \/ Run_LockContext
    \/ Run_WriteContext
    \/ \E policy \in EnforcePolicies :
          Run_FetchConfig(Envelope(TRUE,
              [enabled |-> JBool(policy.enabled),
               partialAccessSites |-> JArray(JSites(policy.sites))]))
    \/ Run_LockConfig
    \/ Run_WriteConfig
    \/ Run_RefreshBlacklist(Envelope(TRUE, << >>))
    \/ Run_SkipSync

EnforceThreadStep ==
    \/ E_LockConfig
    \/ E_CopyConfig
    \/ E_LockContext
    \/ E_CopyContext
    \/ \E w \in EnforceWindows : E_Inspect(w)
    \/ E_CountClosed
    \/ E_SendReport
    \/ E_ReportReturns(0)
    \/ (eiters < MaxEnfIters /\ E_Sleep)

EnforceNext == EnforceMainStep \/ EnforceThreadStep
SpecEnforce == Init /\ [][EnforceNext]_vars

\* ------------------------------------------------------------------------
\* The debounce: the restricted site's policy and context are in place, the
\* operator keeps opening dialogs, and a report takes its time to return.
\* ------------------------------------------------------------------------
MaxDebounceIters == 2  \* iterations of the enforcement loop after the first

\* Milliseconds until a report returns; with the 200 ms sleep the same
\* window is seen again 200, 1999 or 2000 ms after it was closed.
ReportTimes == {0, (DEBOUNCE_SECS * 1000 - LOOP_SLEEP_MS) - 1,
                DEBOUNCE_SECS * 1000 - LOOP_SLEEP_MS}

DebounceWindows == {OPEN_DIALOG, SAVE_DIALOG, PAGE_WINDOW}

DebounceThreadStep ==
    \/ E_LockConfig
    \/ E_CopyConfig
    \/ E_LockContext
    \/ E_CopyContext
    \/ \E w \in DebounceWindows : E_Inspect(w)
    \/ E_CountClosed
    \/ E_SendReport
    \/ \E d \in ReportTimes : E_ReportReturns(d)
    \/ (eiters < MaxDebounceIters /\ E_Sleep)

DebounceNext == FairMainStep \/ DebounceThreadStep
SpecDebounce == Init /\ [][DebounceNext]_vars

\* ========================================================================
\* Claims about the two threads and the main loop (Spec, FairSpec)
\* ========================================================================
EnforcerInIO ==
    epc \in {"e_window", "e_report_wait", "e_sleep", "e_sleep_short"}

\* C1: the enforcement thread holds none of the config, context and stats
\* locks while it performs the access-attempt report, an OS call or a sleep.
C1_NoLockDuringIO == EnforcerInIO => HeldBy(ENFORCER) = {}

MainWaitsForEnforcer ==
    \/ (mpc = "context" /\ lock_context = ENFORCER)
    \/ (mpc = "config" /\ lock_config = ENFORCER)

EnforcerWaitsForMain ==
    \/ (epc = "e_config" /\ lock_config = MAIN)
    \/ (epc = "e_context" /\ lock_context = MAIN)
    \/ (epc = "e_stats" /\ lock_stats = MAIN)

\* C2: in every interleaving no thread holds more than one of the three
\* locks at a time, and the two threads never wait for each other's lock.
C2_AtMostOneLock ==
    /\ \A thread \in {MAIN, ENFORCER} : Cardinality(HeldBy(thread)) <= 1
    /\ ~(MainWaitsForEnforcer /\ EnforcerWaitsForMain)

\* Each thread holds a lock, and they are different locks.
C2_Witness ==
    /\ HeldBy(MAIN) # {}
    /\ HeldBy(ENFORCER) # {}

\* C3: the enforcement thread holds the context and the config lock only
\* for a copy, never while it reports or sleeps, and under fair scheduling
\* every lock acquisition of the main loop succeeds eventually.
C3_MainLocksAcquired ==
    /\ [](epc \in {"e_report_wait", "e_sleep", "e_sleep_short"}
            => (lock_context # ENFORCER /\ lock_config # ENFORCER))
    /\ (mpc = "context") ~> (mpc = "context_write")
    /\ (mpc = "config") ~> (mpc = "config_write")

\* The main loop has the context lock while the enforcement thread is
\* blocked in its report.
C3_Witness ==
    /\ mpc = "context_write"
    /\ lock_context = MAIN
    /\ epc = "e_report_wait"

\* The part of a tick after discovery has returned no URL.
InNoUrlTick ==
    /\ found_url = None
    /\ mpc \in {"refresh", "config", "config_write", "blocked", "sync", "sleep"}

\* C4: a step of a tick in which discovery found no URL leaves the shared
\* context as it was, and the context changes only to the URL found in the
\* present tick.
C4_NoUrlKeepsContext ==
    [][/\ InNoUrlTick' => context' = context
       /\ context' # context =>
             (IsSome(found_url) /\ context'.current_url = Unwrap(found_url))]_vars

\* A tick without a URL after one that found Url(1): the context still
\* names Url(1), and dwell tracking has closed it out.
C4_Witness ==
    /\ InNoUrlTick
    /\ context.current_url = Url(1)
    /\ last_url = EmptyString
    /\ Url(1) \in DOMAIN total_times

HasText(e) == \E i \in DOMAIN e : ~IsWhitespace(e[i])

\* The entries of a fetched list that hold something besides whitespace, in
\* order, each trimmed and lower-cased.
ExpectedBlacklist(fetched) ==
    LET kept == SelectSeq(fetched, HasText)
    IN [i \in DOMAIN kept |-> to_lowercase(trim(kept[i]))]

\* C5: the blacklist is what the last refresh fetched, trimmed, lower-cased
\* and without empty entries, in order, whatever it held before; an empty
\* fetch after a non-empty one leaves it empty.
C5_BlacklistReplaced ==
    /\ api_blacklist = ExpectedBlacklist(blocked_urls)
    /\ blocked_urls = << >> => api_blacklist = << >>

\* A refresh that fetched nothing has replaced a non-empty blacklist.
C5_Witness ==
    /\ replaced # << >>
    /\ blocked_urls = << >>
    /\ api_blacklist = << >>
    /\ mpc = "sync"

\* ========================================================================
\* Claims about blacklist matching (SpecMatch)
\* ========================================================================
\* A step that showed a URL to update_timing, and what is_blocked answered.
Observed == detours' = detours + 1
Blocked == blocked_count' = blocked_count + 1

IsSubstring(t, sub) ==
    \E a \in 1..(Len(t) + 1) :
        \E b \in (a - 1)..Len(t) : SubSeq(t, a, b) = sub

\* One leading http:// or https:// is taken away, then one leading www.,
\* then every '/' at the end.
StripScheme(s) ==
    IF starts_with(s, HTTP) THEN SkipChars(s, Len(HTTP))
    ELSE IF starts_with(s, HTTPS) THEN SkipChars(s, Len(HTTPS))
    ELSE s

StripWww(s) == IF starts_with(s, WWW) THEN SkipChars(s, Len(WWW)) ELSE s

StripSlashes(s) ==
    LET n == CHOOSE k \in 0..Len(s) :
                 /\ k = 0 \/ s[k] # "/"
                 /\ \A j \in (k + 1)..Len(s) : s[j] = "/"
    IN SubSeq(s, 1, n)

Normalized(s) == StripSlashes(StripWww(StripScheme(s)))

HasWildcard(pattern) == \E i \in DOMAIN pattern : pattern[i] = "*"

\* C11: with a blacklist without wildcard patterns, a URL is blocked if and
\* only if it has at least 4 characters and some pattern, normalized, is a
\* substring of the lower-cased URL, normalized the same way.
C11_SubstringMatch ==
    [][(Observed /\ \A i \in DOMAIN api_blacklist : ~HasWildcard(api_blacklist[i]))
         => (Blocked <=>
               /\ Len(last_url') >= MIN_URL_LEN
               /\ \E i \in DOMAIN api_blacklist :
                     IsSubstring(Normalized(to_lowercase(last_url')),
                                 Normalized(api_blacklist[i])))]_vars

\* The whole of s matches the pattern p read as a glob: '*' is any sequence
\* of characters, every other character (the dot included) is itself, and
\* case does not count.
RECURSIVE GlobMatch(_, _)
GlobMatch(p, s) ==
    IF p = << >> THEN s = << >>
    ELSE IF Head(p) = "*"
         THEN \E k \in 0..Len(s) : GlobMatch(Tail(p), SkipChars(s, k))
         ELSE /\ s # << >>
              /\ to_lowercase(<<Head(p)>>) = to_lowercase(<<Head(s)>>)
              /\ GlobMatch(Tail(p), Tail(s))

\* C12: a pattern with '*' blocks a URL (one long enough to be looked at) if
\* and only if the whole unnormalized URL matches the pattern read as a
\* glob, case-insensitively.
C12_WildcardMatch ==
    [][(/\ Observed
        /\ Len(api_blacklist) = 1
        /\ HasWildcard(api_blacklist[1])
        /\ byte_len(to_lowercase(last_url')) >= MIN_URL_LEN)
         => (Blocked <=> GlobMatch(api_blacklist[1], last_url'))]_vars

\* ========================================================================
\* Claims about the browser monitor (SpecBrowser)
\* ========================================================================
Min(a, b) == IF a < b THEN a ELSE b
Last(q) == q[Len(q)]
LastN(q, n) == SubSeq(q, Len(q) - n + 1, Len(q))

\* C6: the pending-upload history never holds more than 50 URLs; it is, in
\* arrival order, the last min(50, n) of the n URLs appended since it was
\* last cleared (so appending to a full history evicts the oldest entry), and
\* after 55 distinct URLs it holds exactly the last 50 of them.
C6_BoundedHistory ==
    /\ Len(urls_for_upload) <= HISTORY_LIMIT
    /\ urls_for_upload = LastN(arrivals, Min(HISTORY_LIMIT, Len(arrivals)))
    /\ (detours = 0 /\ Cardinality(Visited) >= HISTORY_LIMIT)
          => urls_for_upload =
                [i \in 1..HISTORY_LIMIT |->
                    Url(Cardinality(Visited) - HISTORY_LIMIT + i)]

\* 55 distinct URLs have been appended and the history holds the 6th to the
\* 55th of them.
C6_Witness ==
    /\ detours = 0
    /\ Cardinality(Visited) = 55
    /\ Len(urls_for_upload) = HISTORY_LIMIT
    /\ urls_for_upload[1] = Url(6)
    /\ urls_for_upload[HISTORY_LIMIT] = Url(55)

\* C7 as stated: no URL occurs more than once in the pending history.
C7_DistinctHistory ==
    \A i, j \in DOMAIN urls_for_upload :
        i # j => urls_for_upload[i] # urls_for_upload[j]

\* C7 as amended: update_timing appends a URL to the pending history only in
\* a tick whose URL differs from the last-seen URL, and what it appends is
\* that URL; a tick showing the last-seen URL again leaves the history as it
\* is. (The same URL can still occur more than once.)
C7_AppendOnlyOnChange ==
    [][(now' # now)
         => /\ (urls_for_upload' # urls_for_upload
                  => /\ last_url' # last_url
                     /\ urls_for_upload' # << >>
                     /\ Last(urls_for_upload') = last_url')
            /\ (last_url' = last_url => urls_for_upload' = urls_for_upload)]_vars

\* Two ticks have shown the same URL and the history holds it once.
C7_Witness ==
    /\ now = 2 * TickMs
    /\ last_url = Url(1)
    /\ url_timers = (Url(1) :> TickMs)
    /\ urls_for_upload = <<Url(1)>>

\* ========================================================================
\* Claims about the application tracker (SpecTracker)
\* ========================================================================
\* What the operator's idle time really is: the difference of the two tick
\* counts modulo 2^32.
TrueIdle(p) == U32Sub(p.tick, p.dwTime)
IdleThreshold == U32Of(IDLE_THRESHOLD_SECS * 1000)

\* The specification's notion of an active operator: idle for less than
\* 120 s, or the last-input query failed.
OperatorActive(p) == ~p.lii_ok \/ U32Lt(TrueIdle(p), IdleThreshold)

IsTick == ticks' # ticks
SessionOpen == IsSome(current_app) /\ IsSome(app_start_time)
\* A tick that closes the open session: afterwards another app, or none, is
\* the current one.
ClosesSession == IsTick /\ SessionOpen /\ current_app' # current_app
SessionAge == now' - Unwrap(app_start_time)

AggregatesUnchanged ==
    /\ app_total_time' = app_total_time
    /\ app_sessions' = app_sessions
    /\ app_category_time' = app_category_time

\* The aggregates after recording duration d for app a.
AggregatesRecorded(a, d) ==
    /\ a \in DOMAIN app_total_time' /\ a \in DOMAIN app_sessions'
    /\ app_total_time'[a] = MapGetOr(app_total_time, a, 0) + d
    /\ app_sessions'[a] = MapGetOr(app_sessions, a, 0) + 1
    /\ \A b \in DOMAIN app_total_time' \ {a} :
          b \in DOMAIN app_total_time /\ app_total_time'[b] = app_total_time[b]
    /\ MapSum(app_category_time') = MapSum(app_category_time) + d
    /\ DOMAIN app_category_time \subseteq DOMAIN app_category_time'
    /\ \A c \in DOMAIN app_category_time :
          app_category_time'[c] >= app_category_time[c]

LogLineAppended(a, d) ==
    log_file' = Append(log_file, [duration |-> d,
                                  start |-> Unwrap(app_start_time), app |-> a])

\* C8 as stated: a closing tick updates the aggregates and appends a log
\* line if and only if the session lasted at least 5 seconds; a shorter
\* session leaves the aggregates and the log unchanged.
C8_RecordedIffLongEnough ==
    [][ClosesSession
         => IF SessionAge >= MINIMUM_APP_TIME * 1000
            THEN /\ AggregatesRecorded(Unwrap(current_app), SessionAge)
                 /\ LogLineAppended(Unwrap(current_app), SessionAge)
            ELSE AggregatesUnchanged /\ log_file' = log_file]_vars

\* C8 as amended: a closing tick updates the aggregates if and only if the
\* session lasted at least 5 seconds; it appends a log line only then, and
\* then unless the log file cannot be opened for appending; a shorter session
\* leaves the aggregates and the log unchanged.
C8_AggregatesIffLongEnough ==
    [][ClosesSession
         => IF SessionAge >= MINIMUM_APP_TIME * 1000
            THEN /\ AggregatesRecorded(Unwrap(current_app), SessionAge)
                 /\ \/ LogLineAppended(Unwrap(current_app), SessionAge)
                    \/ log_file' = log_file
            ELSE AggregatesUnchanged /\ log_file' = log_file]_vars

\* A session of exactly 5 seconds has been closed, recorded and logged, and
\* no other one.
C8_Witness ==
    /\ \E a \in DOMAIN app_total_time :
          /\ app_total_time = (a :> MINIMUM_APP_TIME * 1000)
          /\ app_sessions = (a :> 1)
          /\ log_file = <<[duration |-> MINIMUM_APP_TIME * 1000, start |-> now - MINIMUM_APP_TIME * 1000,
                           app |-> a]>>
          /\ current_app # Some(a)
    /\ ticks = 2

\* A tick of the kind C9 is about.
FlushTick ==
    /\ IsTick
    /\ OperatorActive(probe')
    /\ SessionOpen
    /\ ACTIVE_APP[probe'.fg] = current_app
    /\ SessionAge >= SESSION_FLUSH_SECS * 1000

\* C9: a tick with the operator active, the foreground app that of the open
\* session and the session at least 300 s old adds exactly the session's
\* age to the app's cumulative time, adds one to its session count, keeps
\* the current app and restarts the session at the tick time; and at any
\* time the durations recorded during the present uninterrupted run of the
\* current app sum to the time from its first start to the start of the
\* session now open (no double count, no gap).
C9_FlushIsAdditive ==
    /\ [][FlushTick
            => /\ AggregatesRecorded(Unwrap(current_app), SessionAge)
               /\ current_app' = current_app
               /\ app_start_time' = Some(now')]_vars
    /\ [](SessionOpen
            => /\ IsSome(run_first)
               /\ run_recorded = Unwrap(app_start_time) - Unwrap(run_first))

\* Two flushes in a row: 600 s recorded since the first start of the run.
C9_Witness ==
    /\ SessionOpen
    /\ run_recorded = 2 * SESSION_FLUSH_SECS * 1000
    /\ app_start_time = Some(now)
    /\ Unwrap(run_first) = now - 2 * SESSION_FLUSH_SECS * 1000
    /\ app_sessions = (Unwrap(current_app) :> 2)

\* C10 as stated: a tick in which the operator has been idle for at least
\* 120 seconds reports no current app and leaves no session open.
C10_IdleTickLeavesNoSession ==
    [][(IsTick /\ probe'.lii_ok /\ U32Ge(TrueIdle(probe'), IdleThreshold))
         => /\ tracked' = None
            /\ current_app' = None
            /\ app_start_time' = None]_vars

\* ------------------------------------------------------------------------
\* Claims about app categories and the app-usage snapshot (SpecTracker)
\* ------------------------------------------------------------------------
\* The category the taxonomy's listed order gives an app name: the first
\* listed category with a substring in the name, Other when there is none.
ListedCategory(app_name) ==
    LET hits == {i \in DOMAIN LISTED_ORDER :
                    LISTED_ORDER[i] \in CATEGORY_HITS[app_name]}
    IN IF hits = {} THEN "Other"
       ELSE LISTED_ORDER[CHOOSE i \in hits : \A j \in hits : i <= j]

\* C13 as stated: every recorded session is added to the first category, in
\* the taxonomy's listed order, that has a substring in the app name (Other
\* if none), so the time of each category is the total of the apps that the
\* listed order puts in it.
C13_FirstListedCategory ==
    \A cat \in DOMAIN app_category_time :
        app_category_time[cat] =
            SumOver(app_total_time,
                    {a \in DOMAIN app_total_time : ListedCategory(a) = cat})

TopApps == Unwrap(app_data).top_apps

\* C14: the top-apps list of a snapshot has min(5, tracked apps) entries, in
\* descending order of cumulative time, each entry carrying the cumulative
\* time of its app, and no app left out has more time than a listed one.
TopAppsOf(snapshot, totals) ==
    LET top == snapshot.top_apps
        listed == {top[i].app : i \in DOMAIN top}
        n == Cardinality(DOMAIN totals)
    IN /\ Len(top) = (IF n < 5 THEN n ELSE 5)
       /\ Cardinality(listed) = Len(top)
       /\ \A i \in DOMAIN top :
             /\ top[i].app \in DOMAIN totals
             /\ top[i].active_time = totals[top[i].app]
       /\ \A i, j \in DOMAIN top :
             i < j => top[i].active_time >= top[j].active_time
       /\ \A a \in DOMAIN totals \ listed :
             \A i \in DOMAIN top : totals[a] <= top[i].active_time

C14_TopAppsDescending ==
    [][app_data' # app_data => TopAppsOf(Unwrap(app_data'), app_total_time)]_vars

\* The first three apps of the row have 10, 30 and 20 seconds and the
\* snapshot lists them second, third, first; and seven apps are tracked, five
\* of them listed, one with 10 seconds left out.
C14_Witness ==
    /\ IsSome(app_data)
    /\ Cardinality(DOMAIN app_total_time) = 7
    /\ Len(TopApps) = 5
    /\ TopApps[1].active_time = 30000
    /\ TopApps[5].active_time = 20000
    /\ \E a \in DOMAIN app_total_time : app_total_time[a] = 10000

C14_ExampleOrder ==
    /\ IsSome(app_data)
    /\ Cardinality(DOMAIN app_total_time) = 3
    /\ [i \in DOMAIN TopApps |-> TopApps[i].active_time] = <<30000, 20000, 10000>>
    /\ [i \in DOMAIN TopApps |-> TopApps[i].app]
         = <<ACTIVE_APP[Some(CODE_EXE)][1], ACTIVE_APP[Some(SLACK_EXE)][1],
             ACTIVE_APP[Some(CHROME_EXE)][1]>>

\* ------------------------------------------------------------------------
\* Claims about update_config (SpecPolicy)
\* ------------------------------------------------------------------------
\* The step in which update_config writes the config from the payload.
WritesConfig == mpc = "config_write" /\ mpc' = "blocked"
Payload == Unwrap(new_config_val)

\* The payload with its alternate keys written as the primary ones.
WithPrimaryKeys(payload) ==
    [k \in {IF key = "active" THEN "enabled"
            ELSE IF key = "sites" THEN "partialAccessSites" ELSE key :
            key \in DOMAIN payload}
        |-> IF k = "enabled" /\ k \notin DOMAIN payload THEN payload["active"]
            ELSE IF k = "partialAccessSites" /\ k \notin DOMAIN payload
                 THEN payload["sites"]
            ELSE payload[k]]

UsesAlternateKeys(payload) ==
    /\ DOMAIN payload \cap {"enabled", "partialAccessSites"} = {}
    /\ DOMAIN payload \cap {"active", "sites"} # {}

\* C15: update_config with a payload under the alternate keys leaves the
\* config that it leaves, from the same prior config, with the same payload
\* under the primary keys.
C15_AlternateKeysEquivalent ==
    [][(WritesConfig /\ UsesAlternateKeys(Payload))
         => config' = apply_config(config, WithPrimaryKeys(Payload))]_vars

\* A policy under active and sites has switched the policy off and put its
\* two well-formed sites in place of an empty list.
C15_Witness ==
    /\ mpc = "blocked"
    /\ IsSome(new_config_val)
    /\ DOMAIN Payload = {"active", "sites"}
    /\ IsSome(prior_config)
    /\ Unwrap(prior_config) = [enabled |-> TRUE, sites |-> << >>]
    /\ config = [enabled |-> FALSE, sites |-> <<PORTAL, ARCHIVE>>]

\* What the payload carries: the boolean under enabled, else under active;
\* the array under partialAccessSites, else under sites.
PayloadFlag(payload) ==
    IF "enabled" \in DOMAIN payload /\ payload["enabled"].t = "bool"
    THEN Some(payload["enabled"].v)
    ELSE IF "active" \in DOMAIN payload /\ payload["active"].t = "bool"
         THEN Some(payload["active"].v)
         ELSE None

PayloadArray(payload) ==
    IF "partialAccessSites" \in DOMAIN payload
       /\ payload["partialAccessSites"].t = "array"
    THEN Some(payload["partialAccessSites"].v)
    ELSE IF "sites" \in DOMAIN payload /\ payload["sites"].t = "array"
         THEN Some(payload["sites"].v)
         ELSE None

SiteInPayload(s, payload) ==
    /\ IsSome(PayloadArray(payload))
    /\ \E i \in DOMAIN Unwrap(PayloadArray(payload)) :
          Unwrap(PayloadArray(payload))[i] = JSite(s)

SitesOf(cfg) == {cfg.sites[i] : i \in DOMAIN cfg.sites}

\* C16 as stated: after update_config has received a payload, the enabled
\* flag and every site of the previous config that are still in the config
\* are contained in the payload.
C16_ReplacedWholesale ==
    [][WritesConfig
         => /\ config'.enabled = config.enabled
                 => PayloadFlag(Payload) = Some(config.enabled)
            /\ \A s \in SitesOf(config') \cap SitesOf(config) :
                  SiteInPayload(s, Payload)]_vars

\* C16, amended: a field is replaced when the payload carries it.  With a
\* boolean under enabled or active the flag becomes that boolean, without
\* one it keeps its value; with an array under partialAccessSites or sites
\* every site of the new list is a record of that array, so that no site of
\* the previous list survives unless the array contains it, and without an
\* array the list keeps its value.
C16_ReplacedWhenPresent ==
    [][WritesConfig
         => /\ config'.enabled = IF IsSome(PayloadFlag(Payload))
                                 THEN Unwrap(PayloadFlag(Payload))
                                 ELSE config.enabled
            /\ IF IsSome(PayloadArray(Payload))
               THEN \A s \in SitesOf(config') : SiteInPayload(s, Payload)
               ELSE config'.sites = config.sites]_vars

\* A policy with a site list has replaced a list of two sites: the site
\* that the fetched list does not contain is gone, and the flag is the
\* fetched one.
C16_Witness ==
    /\ mpc = "blocked"
    /\ IsSome(new_config_val)
    /\ IsSome(prior_config)
    /\ Unwrap(prior_config) = [enabled |-> TRUE, sites |-> <<PORTAL, ARCHIVE>>]
    /\ PayloadFlag(Payload) = Some(FALSE)
    /\ PayloadArray(Payload) = Some(<<JOther, JSite(ARCHIVE)>>)
    /\ config = [enabled |-> FALSE, sites |-> <<ARCHIVE>>]

\* The well-formed records of a fetched array, in their order.
RECURSIVE WellFormed(_)
WellFormed(arr) ==
    IF arr = << >> THEN << >>
    ELSE IF \E s \in {PORTAL, ARCHIVE} : Head(arr) = JSite(s)
         THEN <<CHOOSE s \in {PORTAL, ARCHIVE} : Head(arr) = JSite(s)>>
              \o WellFormed(Tail(arr))
         ELSE WellFormed(Tail(arr))

\* C17: when the payload carries a site array, the new site list is the
\* well-formed records of that array in their original order: the records
\* that do not have the shape of a site are dropped and no other.
C17_MalformedDropped ==
    [][(WritesConfig /\ IsSome(PayloadArray(Payload)))
         => config'.sites = WellFormed(Unwrap(PayloadArray(Payload)))]_vars

\* A list with a malformed record between two sites has been installed as
\* the two sites, in their order.
C17_Witness ==
    /\ mpc = "blocked"
    /\ IsSome(new_config_val)
    /\ PayloadArray(Payload) = Some(<<JSite(PORTAL), JMalformed, JSite(ARCHIVE)>>)
    /\ config.sites = <<PORTAL, ARCHIVE>>

\* ------------------------------------------------------------------------
\* Claims about backend failures in the main loop (SpecBackend)
\* ------------------------------------------------------------------------
CallsMade == SubSeq(calls', Len(calls) + 1, Len(calls'))
MakesCalls == calls' # calls /\ calls' # << >>

\* The step of the loop that follows the calls of a step.
StepAfter(pc) ==
    CASE pc = "startup" -> {"track"}
      [] pc = "refresh" -> {"config", "blocked"}
      [] pc = "blocked" -> {"sync"}
      [] pc = "sync" -> {"sleep"}
      [] OTHER -> {}

\* C18: whatever the results of the backend calls of a step, the main loop
\* goes on to the step that follows (a failed policy fetch to the fetch of
\* the blocked URLs), the refresh records the refresh time and the sync the
\* sync time, no call is made twice in an iteration, and the loop is never
\* left without a next step.
C18_FailuresDoNotStopTheLoop ==
    /\ [](\A i, j \in DOMAIN calls : i < j => calls[i].op # calls[j].op)
    /\ []((mpc = "sleep" /\ iters = MaxBackendIters) \/ ENABLED BackendStep)
    /\ [][MakesCalls
           => /\ mpc' \in StepAfter(mpc)
              /\ (mpc = "refresh" /\ ~CallsMade[1].ok) => mpc' = "blocked"
              /\ mpc = "blocked" => last_config_update' = now
              /\ mpc = "sync" => last_sync' = now]_vars

\* An iteration in which the policy fetch, the fetch of the blocked URLs and
\* the four calls of the sync have all failed has reached its sleep with
\* both times recorded.
C18_Witness ==
    /\ mpc = "sleep"
    /\ iters >= 1
    /\ Len(calls) = 6
    /\ \A i \in DOMAIN calls : ~calls[i].ok
    /\ last_config_update = now
    /\ last_sync = now

\* ------------------------------------------------------------------------
\* Claims about the enforcement thread (SpecEnforce)
\* ------------------------------------------------------------------------
PostsClose == posted' # posted

\* The active sites of a config whose pattern occurs in the URL, letter
\* case apart, by their place in the list.
MatchingActive(cfg, url) ==
    {i \in DOMAIN cfg.sites :
        /\ cfg.sites[i].active
        /\ IsSubstring(to_lowercase(url), to_lowercase(cfg.sites[i].url_pattern))}

FirstOf(S) == CHOOSE i \in S : \A j \in S : i <= j

\* C19: a close request is posted only in an iteration whose config
\* snapshot is enabled and has an active site whose pattern occurs in the
\* snapshot of the context URL, letter case apart, and only for a window
\* that is an upload or download dialog for the first such site of the list.
C19_CloseOnlyForFirstMatch ==
    [][PostsClose
         => /\ current_config.enabled
            /\ MatchingActive(current_config, ctx.current_url) # {}
            /\ get_dialog_type(window'.class_name, window'.title,
                  current_config.sites[
                      FirstOf(MatchingActive(current_config, ctx.current_url))])
                  \in {"Upload", "Download"}]_vars

\* A dialog has been closed for PORTAL, the third site of the list and the
\* first active one that matches.
C19_Witness ==
    /\ posted # << >>
    /\ epc = "e_stats"
    /\ current_config = [enabled |-> TRUE, sites |-> <<DORMANT, ARCHIVE, PORTAL>>]
    /\ site = Some(PORTAL)

\* The step in which the enforcement thread classifies the window it found.
Classifies ==
    /\ epc = "e_window"
    /\ epc' # epc
    /\ window'.hwnd # 0
    /\ Len(window'.title) > 0
    /\ ~(Some(window'.hwnd) = last_blocked_hwnd
         /\ now - last_blocked_time < DEBOUNCE_SECS * 1000)

HasAny(text, words) == \E w \in words : IsSubstring(text, w)

CLASS_MARKERS ==
    {<<"#","3","2","7","7","0">>,
     <<"F","i","l","e","C","h","o","o","s","e","r","D","i","a","l","o","g","C","l","a","s","s">>,
     <<"N","a","t","i","v","e","H","W","N","D","H","o","s","t">>}
UPLOAD_WORDS ==
    {<<"o","p","e","n">>, <<"u","p","l","o","a","d">>,
     <<"s","e","l","e","c","t"," ","f","i","l","e">>,
     <<"c","h","o","o","s","e"," ","f","i","l","e">>}
DOWNLOAD_WORDS == {<<"s","a","v","e">>, <<"d","o","w","n","l","o","a","d">>}

IsUpload(w, st) ==
    /\ ~st.allow_upload
    /\ st.monitor_mode = <<"b","l","o","c","k">>
    /\ HasAny(to_lowercase(w.title), UPLOAD_WORDS)

IsDownload(w, st) ==
    /\ ~st.allow_download
    /\ st.monitor_mode = <<"b","l","o","c","k">>
    /\ HasAny(to_lowercase(w.title), DOWNLOAD_WORDS)

\* C20: a window whose class has none of the dialog markers is None; a
\* candidate is Upload iff the site disallows upload in mode "block" and the
\* lower-cased title has an upload word, otherwise Download iff the site
\* disallows download in mode "block" and the title has a download word,
\* otherwise None.
C20_DialogTypeTable ==
    [][Classifies
         => LET st == Unwrap(site)
                w == window'
            IN IF ~HasAny(w.class_name, CLASS_MARKERS) THEN dialog_type' = "None"
               ELSE /\ dialog_type' = "Upload" <=> IsUpload(w, st)
                    /\ dialog_type' = "Download"
                         <=> (~IsUpload(w, st) /\ IsDownload(w, st))
                    /\ dialog_type' \in {"Upload", "Download", "None"}
                    /\ st.monitor_mode # <<"b","l","o","c","k">>
                         => dialog_type' = "None"]_vars

\* A dialog whose title has a download word and an upload word has been
\* classified Upload for a site that disallows both.
C20_Witness ==
    /\ window = TRANSFER_DIALOG
    /\ IsSome(site)
    /\ ~Unwrap(site).allow_upload
    /\ ~Unwrap(site).allow_download
    /\ dialog_type = "Upload"

\* C21: of two close requests in a row for the same window handle, the
\* second comes at least 2 seconds after the first, and no report is sent
\* that does not follow a close request.
C21_Debounce ==
    /\ \A i \in DOMAIN posted :
          (i > 1 /\ posted[i].hwnd = posted[i - 1].hwnd)
              => posted[i].at - posted[i - 1].at >= 2000
    /\ Len(reports) <= Len(posted)

\* The same window has been closed a second time exactly 2 seconds after
\* the first, and a window closed again sooner after another one was closed
\* in between.
C21_Witness ==
    /\ Len(posted) >= 2
    /\ posted[2].hwnd = posted[1].hwnd
    /\ posted[2].at - posted[1].at = 2000

C21_OtherHandleBetween ==
    /\ Len(posted) >= 3
    /\ posted[3].hwnd = posted[1].hwnd
    /\ posted[2].hwnd # posted[1].hwnd
    /\ posted[3].at - posted[1].at < 2000

\* The enforcement thread is between the close request of an action and the
\* return of its report.
InAction == epc \in {"e_stats", "e_send", "e_report_wait"}

\* C22: an enforcement action posts one close request, adds one to the
\* dialogs-closed counter and sends one report, to the upload-attempt
\* endpoint iff the window is an upload dialog for the site and to the
\* download-attempt endpoint otherwise; outside an action the counter, the
\* close requests and the reports are equal in number.
C22_OneCloseOneCountOneReport ==
    /\ [](/\ ~InAction => (dialogs_closed = Len(posted)
                            /\ Len(reports) = Len(posted))
          /\ epc = "e_stats" => (dialogs_closed = Len(posted) - 1
                                 /\ Len(reports) = Len(posted) - 1)
          /\ epc = "e_send" => (dialogs_closed = Len(posted)
                                /\ Len(reports) = Len(posted) - 1)
          /\ epc = "e_report_wait" => (dialogs_closed = Len(posted)
                                       /\ Len(reports) = Len(posted)))
    /\ [][reports' # reports
           => /\ Len(reports') = Len(reports) + 1
              /\ reports'[Len(reports')].endpoint =
                    (IF IsUpload(window, Unwrap(site)) THEN "upload_attempt"
                     ELSE "download_attempt")]_vars

\* Two actions have completed, one for an upload dialog and one for a
\* download dialog.
C22_Witness ==
    /\ epc = "e_sleep"
    /\ dialogs_closed = 2
    /\ Len(posted) = 2
    /\ Len(reports) = 2
    /\ \E i \in DOMAIN reports : reports[i].endpoint = "upload_attempt"
    /\ \E i \in DOMAIN reports : reports[i].endpoint = "download_attempt"

\* ------------------------------------------------------------------------
\* Claims about dwell tracking and the URL snapshot (SpecDwell)
\* ------------------------------------------------------------------------
\* A tick that received a URL other than the last-seen one, and a tick that
\* received none (a URL is never empty).
NewUrlTick == Observed /\ last_url' # last_url /\ last_url' # EmptyString
NoUrlTick == Observed /\ last_url' = EmptyString

\* The dwell map after the time since the start of last_url's timer (zero
\* without a timer) has been added for last_url.
DwellAdded ==
    LET elapsed == IF last_url \in DOMAIN url_timers
                   THEN now' - url_timers[last_url] ELSE 0
        before == IF last_url \in DOMAIN total_times
                  THEN total_times[last_url] ELSE 0
    IN /\ DOMAIN total_times' = DOMAIN total_times \cup {last_url}
       /\ total_times'[last_url] = before + elapsed
       /\ \A u \in DOMAIN total_times \ {last_url} :
             total_times'[u] = total_times[u]

\* C23: a tick with a URL other than the last-seen one adds the elapsed time
\* to the previous URL's dwell and removes its timer (nothing to add or
\* remove when there was no previous URL), starts the new URL's timer at the
\* time of the tick, makes it the last-seen URL and puts it at the end of
\* the pending history.
C23_UrlChange ==
    [][NewUrlTick
         => /\ IF last_url # EmptyString THEN DwellAdded
               ELSE total_times' = total_times
            /\ url_timers' = (last_url' :> now')
            /\ last_url' \notin {last_url, EmptyString}
            /\ LET pushed == Append(urls_for_upload, last_url')
               IN urls_for_upload' = IF Len(pushed) > 50 THEN Tail(pushed)
                                     ELSE pushed]_vars

\* The first URL has been left a second time: its dwell is the sum of its
\* two stays, and the history holds every arrival.
C23_Witness ==
    /\ Url(1) \in DOMAIN total_times
    /\ total_times[Url(1)] = 2 * CHECK_INTERVAL * 1000 + 500
    /\ last_url = Url(3)
    /\ url_timers = (Url(3) :> now)
    /\ urls_for_upload = <<Url(1), Url(2), Url(1), Url(3)>>

\* C24: a tick without a URL while a last-seen URL exists adds the elapsed
\* time to that URL's dwell, removes its timer and clears the last-seen URL,
\* leaving the pending history and the counters as they were; a tick without
\* a URL when there is no last-seen URL changes nothing of the monitor.
C24_UrlLost ==
    [][NoUrlTick
         => IF last_url # EmptyString
            THEN /\ DwellAdded
                 /\ last_url \in DOMAIN url_timers
                 /\ last_url \notin DOMAIN url_timers'
                 /\ UNCHANGED <<urls_for_upload, blocked_count, suspicious_count>>
            ELSE UNCHANGED browserVars]_vars

\* The blocked URL was shown and then lost: its stay is in the dwell map, no
\* timer is open, and the history and the blocked count still record it.
C24_Witness ==
    /\ last_url = EmptyString
    /\ url_timers = EmptyMap
    /\ Url(2) \in DOMAIN total_times
    /\ total_times[Url(2)] = CHECK_INTERVAL * 1000 + 500
    /\ urls_for_upload = <<Url(1), Url(2)>>
    /\ blocked_count = 1
    /\ detours = 4

\* A call of get_url_data_for_api that shows in the state: a step that is
\* neither a tick nor a blacklist update and yields a snapshot or clears.
TakesUrlData ==
    /\ now' = now /\ detours' = detours /\ api_blacklist' = api_blacklist
    /\ url_data' # url_data \/ urls_for_upload' # urls_for_upload

\* C25: get_url_data_for_api returns the pending history as it was before
\* the call, in arrival order; with clearing requested (the record of
\* arrivals is reset with it) only the pending history is emptied, without
\* clearing the history stays too; the dwell map, the open timer, the
\* last-seen URL, the two counters and the blacklist are never changed.
C25_SnapshotFrame ==
    [][TakesUrlData
         => /\ IsSome(url_data')
            /\ Unwrap(url_data').urls = urls_for_upload
            /\ Unwrap(url_data').urls = arrivals
            /\ urls_for_upload' = IF arrivals' = << >> THEN << >>
                                  ELSE urls_for_upload
            /\ UNCHANGED <<total_times, url_timers, last_url, blocked_count,
                           suspicious_count, api_blacklist>>]_vars

\* A clearing snapshot was taken after two arrivals: it holds both in order,
\* the pending history is empty, and the dwell, the timer, the last-seen URL
\* and the blocked count are still there.
C25_Witness ==
    /\ IsSome(url_data)
    /\ Unwrap(url_data).urls = <<Url(1), Url(2)>>
    /\ urls_for_upload = << >>
    /\ arrivals = << >>
    /\ Url(1) \in DOMAIN total_times
    /\ last_url = Url(2)
    /\ Url(2) \in DOMAIN url_timers
    /\ blocked_count = 1

\* ------------------------------------------------------------------------
\* Claims about the order of an iteration and about failed calls (SpecBackend)
\* ------------------------------------------------------------------------
\* The place of each position of the main loop in one iteration.
StepRank(pc) ==
    CASE pc = "startup" -> 0
      [] pc = "track" -> 1
      [] pc = "discover" -> 2
      [] pc = "context" -> 3
      [] pc = "context_write" -> 4
      [] pc = "refresh" -> 5
      [] pc = "config" -> 6
      [] pc = "config_write" -> 7
      [] pc = "blocked" -> 8
      [] pc = "sync" -> 9
      [] pc = "sleep" -> 10

OpsOf(cs) == [i \in DOMAIN cs |-> cs[i].op]
REFRESH_OPS == <<"get_partial_access_config", "get_blocked_urls">>
SYNC_OPS == <<"send_heartbeat", "upload_app_usage", "upload_urls", "upload_logs">>

\* C26: the steps of an iteration happen in the order tick, discovery with
\* dwell update, context update, refresh, synchronization, sleep: the loop
\* only moves forward until the sleep, each part of the state is written only
\* at its step, the calls of a synchronization are heartbeat, app usage,
\* URLs, logs in that order, and a refresh of the same iteration has made
\* both its calls before them.
C26_IterationOrder ==
    /\ [](mpc \notin {"startup", "track"}
            => /\ OpsOf(calls) \in {<< >>, SubSeq(REFRESH_OPS, 1, 1), REFRESH_OPS,
                                    SYNC_OPS, REFRESH_OPS \o SYNC_OPS}
               /\ StepRank(mpc) <= 5 => calls = << >>
               /\ StepRank(mpc) \in {6, 7, 8} => OpsOf(calls) = SubSeq(REFRESH_OPS, 1, 1)
               /\ mpc = "sync" => OpsOf(calls) \in {<< >>, REFRESH_OPS})
    /\ [][/\ mpc' # mpc => \/ StepRank(mpc') > StepRank(mpc)
                           \/ mpc = "sleep" /\ mpc' = "track"
          /\ trackerVars' # trackerVars => mpc = "track"
          /\ <<last_url, url_timers, total_times, blocked_count>>'
                # <<last_url, url_timers, total_times, blocked_count>>
                => mpc = "discover"
          /\ context' # context => mpc = "context_write"
          /\ config' # config => mpc = "config_write"
          /\ api_blacklist' # api_blacklist => mpc = "blocked"
          /\ (url_data' # url_data \/ app_data' # app_data) => mpc = "sync"
          /\ now' # now => mpc = "sleep"]_vars

\* An iteration in which the refresh and the synchronization were both due
\* has reached its sleep, after a URL was found and written to the context.
C26_Witness ==
    /\ mpc = "sleep"
    /\ OpsOf(calls) = REFRESH_OPS \o SYNC_OPS
    /\ IsSome(found_url)
    /\ context.current_url = Unwrap(found_url)
    /\ iters >= 1

\* ------------------------------------------------------------------------
\* Claims about ticks that find the open session's app (SpecTracker)
\* ------------------------------------------------------------------------
SessionState == <<current_app, app_start_time, app_total_time, app_sessions,
                  app_category_time>>

\* What a tick can find, in the terms of its probe and the state before it.
SameApp == IsSome(current_app) /\ ACTIVE_APP[probe'.fg] = current_app
AppTransition == IsSome(ACTIVE_APP[probe'.fg]) /\ ACTIVE_APP[probe'.fg] # current_app
ToNoActiveApp == ACTIVE_APP[probe'.fg] = None /\ SessionOpen
IdleTransition == ~OperatorActive(probe') /\ SessionOpen
FlushDue ==
    /\ SameApp
    /\ IsSome(app_start_time)
    /\ now' - Unwrap(app_start_time) >= 300 * 1000

\* C27: a tick with an active operator, the foreground app that of the open
\* session and the session open for less than 300 s leaves the current app,
\* the session start and the per-app and per-category aggregates as they
\* were; a tick changes any of them only on an app transition, a transition
\* to no active app, an idle transition or a 300 s flush.
C27_QuietTick ==
    [][IsTick
         => /\ (/\ OperatorActive(probe')
                 /\ SameApp
                 /\ SessionOpen
                 /\ now' - Unwrap(app_start_time) < 300 * 1000)
                   => UNCHANGED SessionState
            /\ SessionState' # SessionState
                   => AppTransition \/ ToNoActiveApp \/ IdleTransition \/ FlushDue]_vars

\* Two ticks found the app of the session opened by the first, the last of
\* them one millisecond short of a flush: nothing has been recorded.
C27_Witness ==
    /\ ticks = 3
    /\ SessionOpen
    /\ tracked = current_app
    /\ OperatorActive(probe)
    /\ now - Unwrap(app_start_time) = SESSION_FLUSH_SECS * 1000 - 1
    /\ app_total_time = EmptyMap
    /\ app_sessions = EmptyMap

\* The call a step has just made, and a step whose call of op has failed
\* (no answer, a non-2xx status, an unparseable body or success = false).
LastCall == calls'[Len(calls')]
FetchFailed(op) == MakesCalls /\ LastCall.op = op /\ ~LastCall.ok
FetchSucceeded(op) == MakesCalls /\ LastCall.op = op /\ LastCall.ok

\* C28: a refresh whose fetch of the blocked URLs fails gets the empty list
\* and replaces the blacklist with it, whatever it held; the blacklist then
\* stays empty, and no URL is counted as blocked, until a step in which the
\* fetch succeeds.
C28_FailedFetchEmptiesBlacklist ==
    /\ [][FetchFailed("get_blocked_urls")
            => /\ blocked_urls' = << >>
               /\ api_blacklist' = << >>]_vars
    /\ [][api_blacklist = << >>
            => /\ blocked_count' = blocked_count
               /\ api_blacklist' # << >> => FetchSucceeded("get_blocked_urls")]_vars

\* A URL that was counted as blocked in one iteration is shown again in the
\* next, after a refresh that failed in between: the blacklist that blocked
\* it is gone and it is not counted.
C28_Witness ==
    /\ iters = 2
    /\ mpc = "context"
    /\ found_url = Some(Url(1))
    /\ replaced # << >>
    /\ api_blacklist = << >>
    /\ blocked_count = 1

\* C29: a config fetch that yields no payload leaves the enabled flag and
\* the site list as they were: the step writes nothing and goes on to the
\* blocked URLs, and the config is only ever written after a fetch of the
\* same iteration that succeeded.
C29_FailedFetchKeepsConfig ==
    /\ [][FetchFailed("get_partial_access_config")
            => /\ new_config_val' = None
               /\ config' = config
               /\ mpc' = "blocked"]_vars
    /\ [][config' # config
            => /\ calls # << >>
               /\ calls[Len(calls)] = Call("get_partial_access_config", TRUE)]_vars

\* A fetch has failed after an earlier one had installed a config: the flag
\* and the site are still those of the earlier payload.
C29_Witness ==
    /\ mpc = "blocked"
    /\ iters >= 1
    /\ calls = <<Call("get_partial_access_config", FALSE)>>
    /\ config = [enabled |-> FALSE, sites |-> <<PORTAL>>]

\* A step that ran the synchronization, and the calls of a sequence of calls.
CallSet(cs) == {cs[i] : i \in DOMAIN cs}
Synchronizes == mpc = "sync" /\ mpc' = "sleep" /\ MakesCalls

\* C30: the synchronization empties the pending history when it takes the
\* snapshot, whatever upload_urls then answers: after every synchronization
\* the history is empty, and the snapshot it sent holds exactly the arrivals
\* since the snapshot before it, so the URLs of a snapshot whose upload
\* failed are neither put back nor sent again.
C30_HistoryClearedBeforeUpload ==
    [][Synchronizes
         => /\ \E ok \in BOOLEAN : Call("upload_urls", ok) \in CallSet(calls')
            /\ urls_for_upload' = << >>
            /\ IsSome(url_data')
            /\ Unwrap(url_data').urls = urls_for_upload
            /\ Unwrap(url_data').urls = arrivals]_vars

\* The upload of a snapshot with one URL has failed: the history is empty
\* all the same, and the URL is still the one in the address bar.
C30_Witness ==
    /\ mpc = "sleep"
    /\ Call("upload_urls", FALSE) \in CallSet(calls)
    /\ IsSome(url_data)
    /\ Unwrap(url_data).urls = <<Url(1)>>
    /\ urls_for_upload = << >>
    /\ last_url = Url(1)

\* ------------------------------------------------------------------------
\* Claims about the content of access-attempt reports (SpecEnforce)
\* ------------------------------------------------------------------------
\* C31: every report sent has blocked = true, fileType "Unknown" and
\* monitorMode "block", and carries the URL and the domain of the context
\* snapshot of the iteration that sends it; the site of a report, and of a
\* close request, always has the mode "block".
C31_ReportContent ==
    /\ [](\A i \in DOMAIN reports :
             /\ reports[i].blocked = TRUE
             /\ reports[i].file_type = "Unknown"
             /\ reports[i].monitor_mode = <<"b","l","o","c","k">>)
    /\ [][reports' # reports
            => /\ Len(reports') = Len(reports) + 1
               /\ reports'[Len(reports')].url = ctx.current_url
               /\ reports'[Len(reports')].domain = ctx.current_domain
               /\ IsSome(site)
               /\ Unwrap(site).monitor_mode = <<"b","l","o","c","k">>]_vars
    /\ [][posted' # posted
            => IsSome(site) /\ Unwrap(site).monitor_mode = <<"b","l","o","c","k">>]_vars

\* A report for the first URL has been sent.
C31_Witness ==
    /\ Len(reports) = 1
    /\ reports[1].url = Url(1)
    /\ reports[1].domain = <<"s","1",".","i","o">>
    /\ reports[1].blocked
    /\ reports[1].monitor_mode = BLOCK
    /\ ctx.current_url = Url(1)

\* ------------------------------------------------------------------------
\* Claims about blacklist entries that normalize to nothing (SpecMatch)
\* ------------------------------------------------------------------------
\* An entry without a wildcard that holds text but of which the prefix and
\* slash strips leave nothing, such as "https://", "www." or "/".
NormalizesToNothing(e) ==
    /\ HasText(e)
    /\ ~HasWildcard(e)
    /\ Normalized(to_lowercase(trim(e))) = << >>

\* C32: a fetched entry without a wildcard that normalizes to the empty
\* string is kept in the blacklist (trimmed and lower-cased), and while the
\* blacklist holds such an entry every URL of at least 4 characters shown
\* to update_timing is counted as blocked.
C32_EmptyPatternBlocksAll ==
    /\ [](\A i \in DOMAIN blocked_urls :
             NormalizesToNothing(blocked_urls[i])
                => \E k \in DOMAIN api_blacklist :
                      api_blacklist[k] = to_lowercase(trim(blocked_urls[i])))
    /\ [][(/\ Observed
           /\ Len(last_url') >= 4
           /\ \E k \in DOMAIN api_blacklist : NormalizesToNothing(api_blacklist[k]))
            => Blocked]_vars

\* With "www." in the blacklist, next to an entry that matches nothing, two
\* URLs of four characters and more have been shown and both were counted.
C32_Witness ==
    /\ \E k \in DOMAIN api_blacklist : api_blacklist[k] = WWW
    /\ Len(blocked_urls) = 3
    /\ Len(api_blacklist) = 2
    /\ detours = 2
    /\ blocked_count = 2
    /\ last_url = <<"z","z","z","z">>

\* ------------------------------------------------------------------------
\* Invariants of the tracker's state (SpecTracker)
\* ------------------------------------------------------------------------
\* C33: the current application and the session start are both present or
\* both absent.
C33_AppAndStartTogether == IsSome(current_app) <=> IsSome(app_start_time)

\* A session was opened, recorded and closed by a tick without an active
\* app: neither a current app nor a session start is left.
C33_Witness ==
    /\ ticks = 2
    /\ probe.fg = None
    /\ OperatorActive(probe)
    /\ current_app = None
    /\ app_start_time = None
    /\ app_sessions # EmptyMap

\* No entry of the map m is lost or made smaller by the step.
NeverDecreases(m, mNext) ==
    \A k \in DOMAIN m : k \in DOMAIN mNext /\ mNext[k] >= m[k]

\* C34: the per-app times and the per-app session counts have the same
\* keys, every count is at least 1, the per-category times add up to the
\* per-app times, and no time and no count ever decreases.
C34_AggregatesConsistent ==
    /\ [](/\ DOMAIN app_total_time = DOMAIN app_sessions
          /\ \A a \in DOMAIN app_sessions : app_sessions[a] >= 1
          /\ MapSum(app_category_time) = MapSum(app_total_time))
    /\ [][/\ NeverDecreases(app_total_time, app_total_time')
          /\ NeverDecreases(app_sessions, app_sessions')
          /\ NeverDecreases(app_category_time, app_category_time')]_vars

\* One app has two sessions on record, both in the same category.
C34_Witness ==
    /\ \E a \in DOMAIN app_sessions :
          /\ app_sessions[a] = 2
          /\ app_total_time[a] = 2 * SESSION_FLUSH_SECS * 1000
    /\ Cardinality(DOMAIN app_category_time) = 1
    /\ MapSum(app_category_time) = 2 * SESSION_FLUSH_SECS * 1000

\* Two apps of different categories have a session each on record.
C34_TwoCategories ==
    /\ Cardinality(DOMAIN app_total_time) = 2
    /\ Cardinality(DOMAIN app_category_time) = 2

\* ------------------------------------------------------------------------
\* Invariant of the timer map (SpecDwell)
\* ------------------------------------------------------------------------
\* C35: the timer map holds exactly one entry, that of the last-seen URL,
\* when there is a last-seen URL, and none when there is not.
C35_OneOpenTimer ==
    IF last_url # EmptyString
    THEN DOMAIN url_timers = {last_url}
    ELSE url_timers = EmptyMap

\* The first URL was left for the second, which was left for none, and the
\* third was then shown: only the third has a timer, the other two have
\* their dwell on record.
C35_Witness ==
    /\ detours = 4
    /\ arrivals = <<Url(1), Url(2), Url(3)>>
    /\ last_url = Url(3)
    /\ \A u \in DOMAIN url_timers : u = Url(3)
    /\ Url(3) \in DOMAIN url_timers
    /\ Url(1) \in DOMAIN total_times
    /\ Url(2) \in DOMAIN total_times
    /\ Url(3) \notin DOMAIN total_times

\* ------------------------------------------------------------------------
\* The idle time computed by check_device_active (SpecTracker)
\* ------------------------------------------------------------------------
\* C36 as stated: for the answers of the OS read by the last tick, the idle
\* time computed is (tick count - tick of the last input) modulo 2^32, also
\* across the wrap of the counter, and the operator counts as active iff
\* that idle time is below 120000 ms.
C36_IdleModulo ==
    probe.lii_ok
       => /\ idle_ticks(probe.tick, probe.dwTime) = U32Sub(probe.tick, probe.dwTime)
          /\ check_device_active(probe.lii_ok, probe.tick, probe.dwTime)
                <=> U32Lt(U32Sub(probe.tick, probe.dwTime), U32Of(120000))

====
